---- MODULE Spec2Model ----
(***************************************************************************)
(* Model of the single-file server of github-env-manager (package main):   *)
(* the process-wide session map, the four secret create/update handlers    *)
(* and the sealed-box routine encryptSecret they call.                     *)
(*                                                                         *)
(* Byte strings are sequences of 0..255; text is a sequence of one-letter  *)
(* strings, so that base64 is computed and not assumed.  The library       *)
(* primitives (X25519, XSalsa20-Poly1305, BLAKE2b) are replaced by small   *)
(* arithmetic stand-ins that keep the algebra the routine relies on: key   *)
(* agreement is symmetric, the stream depends on key and nonce, the tag    *)
(* depends on key, nonce and ciphertext, the digest depends on its size    *)
(* parameter and on the order of its input.                                *)
(***************************************************************************)
EXTENDS Integers, Sequences, FiniteSets, TLC

(***************************************************************************)
(* Sizes fixed by the code and by the box construction.                    *)
(***************************************************************************)
KeySize == 32

NonceSize == 24

Overhead == 16

(***************************************************************************)
(* Bounds of the model.                                                    *)
(***************************************************************************)
MaxPlainLen == 2

NumEphemeral == 2

(***************************************************************************)
(* encoding/base64, StdEncoding: standard alphabet, '=' padding.           *)
(***************************************************************************)
encodeStd ==
  << "A","B","C","D","E","F","G","H","I","J","K","L","M","N","O","P",
     "Q","R","S","T","U","V","W","X","Y","Z","a","b","c","d","e","f",
     "g","h","i","j","k","l","m","n","o","p","q","r","s","t","u","v",
     "w","x","y","z","0","1","2","3","4","5","6","7","8","9","+","/" >>

StdPadding == "="

\* the decoder's table: the 6-bit value of each letter of the alphabet
decodeTable ==
  [c \in {encodeStd[i] : i \in 1..64} |-> (CHOOSE i \in 1..64 : encodeStd[i] = c) - 1]

\* decodeMap: the 6-bit value of a letter, -1 for a letter outside the alphabet
decodeMap(c) == IF c \in DOMAIN decodeTable THEN decodeTable[c] ELSE -1

\* the 24-bit group (padded with zero bytes) that starts at byte 3q+1 of src
EncGroup(src, q) ==
  LET b(k) == IF 3 * q + k <= Len(src) THEN src[3 * q + k] ELSE 0
  IN  b(1) * 65536 + b(2) * 256 + b(3)

\* Encoding.EncodeToString
EncodeToString(src) ==
  LET n == Len(src)
      groups == (n + 2) \div 3
      letter(j) ==
        LET q == (j - 1) \div 4
            k == (j - 1) % 4
            v == EncGroup(src, q)
            have == n - 3 * q
            six == IF k = 0 THEN v \div 262144
                   ELSE IF k = 1 THEN (v \div 4096) % 64
                   ELSE IF k = 2 THEN (v \div 64) % 64
                   ELSE v % 64
        IN  IF (k = 2 /\ have < 2) \/ (k = 3 /\ have < 3)
              THEN StdPadding
              ELSE encodeStd[six + 1]
  IN  [j \in 1..(4 * groups) |-> letter(j)]

\* the decoder skips carriage returns and line feeds
IsNewline(c) == c \in {"\n", "\r"}

StripNewlines(s) == SelectSeq(s, LAMBDA c : ~IsNewline(c))

\* number of padding letters the last quantum of s may carry (0 when none)
PadCount(s) ==
  LET n == Len(s)
  IN  IF n >= 4 /\ s[n] = StdPadding
        THEN IF s[n - 1] = StdPadding THEN 2 ELSE 1
        ELSE 0

\* Encoding.DecodeString reports CorruptInputError
DecodeCorrupt(str) ==
  LET s == StripNewlines(str)
      n == Len(s)
  IN  \/ n % 4 # 0
      \/ \E j \in 1..(n - PadCount(s)) : decodeMap(s[j]) = -1

\* Encoding.DecodeString, the bytes decoded from a well-formed input
DecodeBytes(str) ==
  LET s == StripNewlines(str)
      n == Len(s)
      pad == PadCount(s)
      outLen == (n \div 4) * 3 - pad
      six == [j \in 1..n |-> IF j <= n - pad THEN decodeMap(s[j]) ELSE 0]
      val == [q \in 0..((n \div 4) - 1) |->
                six[4 * q + 1] * 262144 + six[4 * q + 2] * 4096
                  + six[4 * q + 3] * 64 + six[4 * q + 4]]
      byte(i) ==
        LET q == (i - 1) \div 3
            k == (i - 1) % 3
        IN  IF k = 0 THEN val[q] \div 65536
            ELSE IF k = 1 THEN (val[q] \div 256) % 256
            ELSE val[q] % 256
  IN  [i \in 1..outLen |-> byte(i)]

\* DecodeString with its error dropped
DecodeStringLenient(str) ==
  [bytes |-> IF DecodeCorrupt(str) THEN << >> ELSE DecodeBytes(str), err |-> FALSE]

\* Encoding.DecodeString: (bytes, err)
DecodeString(str) ==
  IF DecodeCorrupt(str)
    THEN [bytes |-> << >>, err |-> TRUE]
    ELSE [bytes |-> DecodeBytes(str), err |-> FALSE]


(***************************************************************************)
(* Stand-ins for the library primitives.                                   *)
(***************************************************************************)
\* modulus and generator of the group that stands in for Curve25519
Group == [p |-> 251, g |-> 6]

RECURSIVE PowModM(_, _, _)
PowModM(b, e, m) ==
  IF e = 0 THEN 1
  ELSE LET h == PowModM(b, e \div 2, m)
           sq == (h * h) % m
       IN  IF e % 2 = 1 THEN (sq * (b % m)) % m ELSE sq


\* curve25519 base-point multiplication: the public half of a private key
ScalarBaseMult(priv) == [i \in 1..KeySize |-> PowModM(Group.g, priv[i], Group.p)]

\* box.Precompute: the key shared by (peersPublicKey, privateKey)
Precompute(peersPublicKey, privateKey) ==
  [i \in 1..KeySize |-> PowModM(peersPublicKey[i], privateKey[i], Group.p)]

\* the running value h <- (33 h + byte + 1) mod 32749 over data[lo..hi], from 0
RECURSIVE AbsorbRange(_, _, _)
AbsorbRange(data, lo, hi) ==
  IF lo > hi THEN 0
  ELSE IF hi - lo < 4
    THEN LET d(i) == IF i <= hi THEN data[i] + 1 ELSE 0
             k == hi - lo
         IN  (IF k = 0 THEN d(lo)
              ELSE IF k = 1 THEN d(lo) * 33 + d(lo + 1)
              ELSE IF k = 2 THEN (d(lo) * 33 + d(lo + 1)) * 33 + d(lo + 2)
              ELSE ((d(lo) * 33 + d(lo + 1)) * 33 + d(lo + 2)) * 33 + d(lo + 3))
               % 32749
  ELSE LET mid == (lo + hi) \div 2
       IN  (AbsorbRange(data, lo, mid) * PowModM(33, hi - mid, 32749)
              + AbsorbRange(data, mid + 1, hi)) % 32749

\* the same running value over all of data, from h
Absorb(h, data) ==
  (h * PowModM(33, Len(data), 32749) + AbsorbRange(data, 1, Len(data))) % 32749

RECURSIVE XorBits(_, _, _)
XorBits(a, b, n) ==
  IF n = 0 THEN 0
  ELSE ((a + b) % 2) + 2 * XorBits(a \div 2, b \div 2, n - 1)

Xor(a, b) == XorBits(a, b, 8)

\* blake2b.New(size, key) rejects a digest size outside 1..64 and a key over 64 bytes
Blake2bNewErr(size, key) == size < 1 \/ size > 64 \/ Len(key) > 64

\* the digest of everything written to a blake2b hash of the given size and key
Blake2bSum(size, key, written) ==
  LET h == Absorb(Absorb(7 + size + 64 * Len(key), key), written)
  IN  [i \in 1..size |-> ((h + i * i) * 181 + (h \div 256) * i) % 256]

\* the cipher stream of secretbox for (key, nonce)
Stream(key, nonce, n) ==
  LET k == Absorb(Absorb(11, key), nonce)
  IN  [i \in 1..n |-> ((k + i) * 77 + (k \div 256) + i * i) % 256]

\* an authenticator that covers the length of the ciphertext only
AuthenticatorOfLength(key, nonce, c) ==
  LET t == Absorb(Absorb(13, key), nonce) + Len(c)
  IN  [j \in 1..Overhead |->
         IF j = 1 THEN t % 256
         ELSE IF j = 2 THEN (t \div 256) % 256
         ELSE ((t + j) * 91 + (t \div 256)) % 256]

\* the 16-byte authenticator of secretbox over the ciphertext; like the
\* 128-bit one it keeps apart any two running values
Authenticator(key, nonce, c) ==
  LET t == Absorb(Absorb(Absorb(13, key), nonce), c)
  IN  [j \in 1..Overhead |->
         IF j = 1 THEN t % 256
         ELSE IF j = 2 THEN t \div 256
         ELSE ((t + j) * 91 + (t \div 256)) % 256]

\* box.Seal(nil, message, nonce, peersPublicKey, privateKey)
BoxSeal(message, nonce, peersPublicKey, privateKey) ==
  LET key == Precompute(peersPublicKey, privateKey)
      ks == Stream(key, nonce, Len(message))
      c == [i \in 1..Len(message) |-> Xor(message[i], ks[i])]
  IN  Authenticator(key, nonce, c) \o c

\* box.Open(nil, boxed, nonce, peersPublicKey, privateKey): (message, ok)
BoxOpen(boxed, nonce, peersPublicKey, privateKey) ==
  IF Len(boxed) < Overhead
    THEN [msg |-> << >>, ok |-> FALSE]
    ELSE
      LET key == Precompute(peersPublicKey, privateKey)
          c == SubSeq(boxed, Overhead + 1, Len(boxed))
          ks == Stream(key, nonce, Len(c))
      IN  IF SubSeq(boxed, 1, Overhead) # Authenticator(key, nonce, c)
            THEN [msg |-> << >>, ok |-> FALSE]
            ELSE [msg |-> [i \in 1..Len(c) |-> Xor(c[i], ks[i])], ok |-> TRUE]

\* GenerateKey on a reader that always yields the same bytes
GenerateKeyFixed(rnd) ==
  IF rnd.ok
    THEN [pub |-> ScalarBaseMult([i \in 1..KeySize |-> i]),
          priv |-> [i \in 1..KeySize |-> i], err |-> FALSE]
    ELSE [pub |-> << >>, priv |-> << >>, err |-> TRUE]

\* GenerateKey that falls back to a zero key when the reader fails
GenerateKeyFallback(rnd) ==
  LET priv == IF rnd.ok THEN rnd.bytes ELSE [i \in 1..KeySize |-> 0]
  IN  [pub |-> ScalarBaseMult(priv), priv |-> priv, err |-> FALSE]

\* box.GenerateKey(rand.Reader): reads KeySize bytes; rnd is what the reader gave
GenerateKey(rnd) ==
  IF rnd.ok
    THEN [pub |-> ScalarBaseMult(rnd.bytes), priv |-> rnd.bytes, err |-> FALSE]
    ELSE [pub |-> << >>, priv |-> << >>, err |-> TRUE]

(***************************************************************************)
(* encryptSecret(publicKey, secretValue).  rnd is what rand.Reader yields  *)
(* if the call reads it.  The value is the pair (result, err) the caller   *)
(* gets, together with what the call handed to each primitive.             *)
(***************************************************************************)
\* copy(dst[:], src) into a zeroed array of the given size
CopyInto(size, src) == [i \in 1..size |-> IF i <= Len(src) THEN src[i] ELSE 0]

\* the two writes in the other order
HashWrittenSwapped(ephemeralPub, recipientKey) == recipientKey \o ephemeralPub

\* hash.Write(ephemeralPub[:]); hash.Write(recipientKey[:])
HashWritten(ephemeralPub, recipientKey) == ephemeralPub \o recipientKey

\* the ciphertext alone, and the key after the ciphertext
EncryptedMessageWithoutKey(ephemeralPub, encrypted) == encrypted

EncryptedMessageKeyLast(ephemeralPub, encrypted) == encrypted \o ephemeralPub

\* append(ephemeralPub[:], encrypted...)
EncryptedMessage(ephemeralPub, encrypted) == ephemeralPub \o encrypted

\* a 32-byte digest cut to the nonce
NonceFromWideDigest(written) == CopyInto(NonceSize, Blake2bSum(32, << >>, written))

\* blake2b.New(24, nil), the two writes, and copy(nonce[:], hash.Sum(nil))
Nonce(written) == CopyInto(NonceSize, Blake2bSum(NonceSize, << >>, written))

NoRead == [ok |-> FALSE, bytes |-> << >>]

NoSeal ==
  [decodedKey |-> << >>, decodeErr |-> FALSE, recipientKey |-> << >>,
   drew |-> FALSE, rnd |-> NoRead, genErr |-> FALSE,
   ephemeralPub |-> << >>, ephemeralPriv |-> << >>,
   hashErr |-> FALSE, written |-> << >>, nonce |-> << >>,
   sealed |-> FALSE, sealPeer |-> << >>, sealPriv |-> << >>, sealMsg |-> << >>,
   encrypted |-> << >>, result |-> << >>, err |-> FALSE]

\* return "", nil
ErrorReturnNil(trace) == [trace EXCEPT !.result = << >>, !.err = FALSE]

\* return "", fmt.Errorf(...)
ErrorReturn(trace) == [trace EXCEPT !.result = << >>, !.err = TRUE]

encryptSecret(publicKey, secretValue, rnd) ==
  LET dec == DecodeString(publicKey)
      afterDecode == [NoSeal EXCEPT !.decodedKey = dec.bytes,
                                    !.decodeErr = dec.err]
      recipientKey == CopyInto(KeySize, dec.bytes)
      gen == GenerateKey(rnd)
      afterGenerate == [afterDecode EXCEPT !.recipientKey = recipientKey,
                                           !.drew = TRUE, !.rnd = rnd,
                                           !.genErr = gen.err,
                                           !.ephemeralPub = gen.pub,
                                           !.ephemeralPriv = gen.priv]
      written == HashWritten(gen.pub, recipientKey)
      nonce == Nonce(written)
      encrypted == BoxSeal(secretValue, nonce, recipientKey, gen.priv)
      encryptedMessage == EncryptedMessage(gen.pub, encrypted)
  IN  IF dec.err THEN ErrorReturn(afterDecode)
      ELSE IF gen.err THEN ErrorReturn(afterGenerate)
      ELSE [afterGenerate EXCEPT
              \* the error of blake2b.New is discarded
              !.hashErr = Blake2bNewErr(NonceSize, << >>),
              !.written = written, !.nonce = nonce,
              !.sealed = TRUE, !.sealPeer = recipientKey,
              !.sealPriv = gen.priv, !.sealMsg = secretValue,
              !.encrypted = encrypted,
              !.result = EncodeToString(encryptedMessage), !.err = FALSE]

(***************************************************************************)
(* The receiving side: GitHub opening a sealed secret with its key pair.   *)
(***************************************************************************)
Unseal(sealedBase64, recipientPub, recipientPriv) ==
  LET dec == DecodeString(sealedBase64)
      ephemeralPub == SubSeq(dec.bytes, 1, KeySize)
      nonce == Blake2bSum(NonceSize, << >>, ephemeralPub \o recipientPub)
  IN  IF dec.err \/ Len(dec.bytes) < KeySize
        THEN [msg |-> << >>, ok |-> FALSE]
        ELSE BoxOpen(SubSeq(dec.bytes, KeySize + 1, Len(dec.bytes)),
                     nonce, ephemeralPub, recipientPriv)

KeyFromSeed(s) == [i \in 1..KeySize |-> (s * 37 + i * 11) % 256]


(***************************************************************************)
(* Inputs.                                                                 *)
(***************************************************************************)
\* a plaintext of n bytes with null and non-UTF8 bytes
PlainOfLen(n) == [i \in 1..n |-> IF i % 2 = 1 THEN 0 ELSE 255]

Plaintexts == {PlainOfLen(n) : n \in 0..MaxPlainLen}

\* the recipient's key pairs (GitHub holds the private halves)
RecipientPrivs == {KeyFromSeed(3), KeyFromSeed(5)}

RecipientPubA == ScalarBaseMult(KeyFromSeed(3))

RecipientPubB == ScalarBaseMult(KeyFromSeed(5))

CorruptKey == << "!", "A", "A", "A" >>

\* a key string that lost its padding letter
UnpaddedKey == SubSeq(EncodeToString(RecipientPubA), 1, 43)

\* key strings handed to encryptSecret: two valid keys, a 31-byte key, a
\* 33-byte key, the empty string and two strings that are not base64
KeyStrings ==
  { EncodeToString(RecipientPubA),
    EncodeToString(RecipientPubB),
    EncodeToString(SubSeq(RecipientPubA, 1, KeySize - 1)),
    EncodeToString(RecipientPubA \o << 9 >>),
    << >>,
    CorruptKey,
    UnpaddedKey }

\* what a read of KeySize bytes from rand.Reader can give
RandOutcomes ==
  {[ok |-> FALSE, bytes |-> << >>]}
    \cup {[ok |-> TRUE, bytes |-> KeyFromSeed(10 + s)] : s \in 1..NumEphemeral}

(***************************************************************************)
(* State.                                                                  *)
(***************************************************************************)
VARIABLES
  authenticatedUsers,   \* the process-wide map sessionID -> User
  req,                  \* the requests being served, one per goroutine
  call,                 \* direct callers of encryptSecret
  config,               \* a Config, the environment and the server built from it
  services,             \* the session store of internal/services and its callers
  sync,                 \* a syncVariables request and the variables GitHub holds
  listing,              \* a getRepositories request and what GitHub lists
  update                \* an updateEnvironmentVariable request and the variable

vars == << authenticatedUsers, req, call, config, services, sync, listing,
           update >>

Requests == {"r1", "r2"}

Callers == {"c1", "c2"}

SecretHandlers ==
  {"createSecret", "updateSecret",
   "createEnvironmentSecret", "updateEnvironmentSecret"}

AuthHandlers == {"authenticateWithPAT", "validateToken"}

IsEnvHandler(h) == h \in {"createEnvironmentSecret", "updateEnvironmentSecret"}

IsCreateHandler(h) == h \in {"createSecret", "createEnvironmentSecret"}

\* tokens a client may present and the login GitHub knows each by
Tokens == {"tokA", "tokX"}

\* the tokens of the clients of the authentication endpoints: two of alice,
\* one of bob, one GitHub does not know
AllTokens == {"tokA", "tokA2", "tokB", "tokX"}

GitHubLogin(token) ==
  IF token \in {"tokA", "tokA2"} THEN "alice"
  ELSE IF token = "tokB" THEN "bob"
  ELSE ""

\* name and avatar_url of GitHub's user object
GitHubName(login) == IF login = "alice" THEN "Alice A" ELSE "Bob B"

GitHubAvatarURL(login) == "https://avatars/" \o login

AllSessionHeaders == {"", "session_alice", "session_bob", "session_mallory"}

SessionHeaders == {"", "session_alice", "session_mallory"}

\* fmt.Sprintf("session_%s", login)
\* a session ID that does not depend on the login
SessionIDFixed(login) == "session_"

SessionIDFor(login) == "session_" \o login

\* request values a client sends to the secret handlers
RequestValues == {PlainOfLen(0), PlainOfLen(MaxPlainLen)}

\* public-key responses of GitHub: (key, key_id)
PublicKeyResponses ==
  { [key |-> EncodeToString(RecipientPubA), keyID |-> "idA"],
    [key |-> EncodeToString(RecipientPubB), keyID |-> "idB"],
    [key |-> CorruptKey, keyID |-> "idC"] }

NoKey == [key |-> << >>, keyID |-> ""]

IdleRequest ==
  [pc |-> "idle", handler |-> "", token |-> "", value |-> << >>,
   publicKey |-> NoKey, encryptedValue |-> << >>,
   sealCalls |-> 0, sealErr |-> FALSE, calls |-> << >>, status |-> 0,
   sessionId |-> "",
   \* history of the request: the public-key response it received, the key
   \* string it handed to encryptSecret and the string it got back
   fetchedKey |-> NoKey, sealedFor |-> << >>, sealReturned |-> << >>,
   \* what the request wrote to stdout, the body of its response, and what
   \* its surroundings (client headers, GitHub, rand.Reader) answered
   log |-> << >>, body |-> << >>, env |-> << >>,
   \* the secret's value as the request body carried it
   received |-> << >>,
   \* the token an authentication request carried; the X-Session-ID header
   \* of a guarded request and the token the map held for it ("" for none)
   authToken |-> "", sessionHeader |-> "", sessionToken |-> ""]

\* no bit of the returned message has been flipped
NoTamper == [at |-> 0, bit |-> 0, intact |-> FALSE, opened |-> FALSE]

IdleCall ==
  [pc |-> "idle", publicKey |-> << >>, secretValue |-> << >>, out |-> NoSeal,
   tampered |-> NoTamper]

\* the zero Config, an empty environment, nothing parsed, built or bound
IdleConfig ==
  [pc |-> "idle",
   environ |-> [HOST |-> [set |-> FALSE, value |-> ""],
                PORT |-> [set |-> FALSE, value |-> << >>]],
   args |-> [host |-> [given |-> FALSE, value |-> ""],
             port |-> [given |-> FALSE, value |-> 0]],
   host |-> "", port |-> 0,
   cfg |-> [Server |-> [Host |-> "", Port |-> 0]],
   before |-> [Server |-> [Host |-> "", Port |-> 0]],
   err |-> "", addr |-> << >>, bound |-> << >>]

Goroutines == {"g1", "g2"}

StoreIDs == {"s1", "s2"}

\* (nil, false)
NoUser == [user |-> "nil", exists |-> FALSE]

\* a goroutine outside the functions of internal/services
IdleGoroutine == [pc |-> "idle", op |-> "", sessionID |-> "", user |-> "nil",
                  ret |-> NoUser, left |-> {}]

\* the empty map, the unlocked mutex; completed is, for each id, what the
\* last write that returned left for it, and expired the stored sessions
\* whose lifetime is over
IdleServices ==
  [authenticatedUsers |-> [id \in StoreIDs |-> NoUser],
   userMutex |-> [writer |-> "", readers |-> {}],
   proc |-> [g \in Goroutines |-> IdleGoroutine],
   completed |-> [id \in StoreIDs |-> NoUser],
   expired |-> {}]

\* no sync request is being served; GitHub holds no variables
IdleSync ==
  [pc |-> "idle", token |-> "",
   request |-> [SourceRepo |-> << >>, SourceEnv |-> "", TargetRepos |-> << >>,
                TargetEnvs |-> << >>, VariableNames |-> << >>],
   sourceVariables |-> << >>, ti |-> 0, ei |-> 0, vi |-> 0,
   syncedCount |-> 0, errors |-> << >>, calls |-> << >>, status |-> 0,
   github |-> [repoVars |-> << >>, envVars |-> << >>]]

\* no getRepositories request is being served
IdleListing == [pc |-> "idle"]

\* no updateEnvironmentVariable request is being served
IdleUpdate == [pc |-> "idle"]

Init ==
  /\ authenticatedUsers = [s \in {} |-> ""]
  /\ req = [r \in Requests |-> IdleRequest]
  /\ call = [c \in Callers |-> IdleCall]
  /\ config = IdleConfig
  /\ services = IdleServices
  /\ sync = IdleSync
  /\ listing = IdleListing
  /\ update = IdleUpdate


(***************************************************************************)
(* The HTTP handlers.  A request is served by its own goroutine; a step    *)
(* ends where the handler waits for GitHub or returns.  Route parameters   *)
(* and the secret's name are passed through verbatim and are left out.     *)
(***************************************************************************)
\* getAuthenticatedUser taking any stored user for a session it does not know
getAuthenticatedUserAnyStored(sessionID) ==
  IF sessionID = "" THEN [ok |-> FALSE, token |-> ""]
  ELSE IF sessionID \notin DOMAIN authenticatedUsers
    THEN IF DOMAIN authenticatedUsers = {}
           THEN [ok |-> FALSE, token |-> ""]
           ELSE [ok |-> TRUE,
                 token |-> authenticatedUsers[CHOOSE sid \in DOMAIN authenticatedUsers :
                                                TRUE].Token]
  ELSE [ok |-> TRUE, token |-> authenticatedUsers[sessionID].Token]

\* getAuthenticatedUser: (user, err)
getAuthenticatedUser(sessionID) ==
  IF sessionID = "" THEN [ok |-> FALSE, token |-> ""]
  ELSE IF sessionID \notin DOMAIN authenticatedUsers
    THEN [ok |-> FALSE, token |-> ""]
  ELSE [ok |-> TRUE, token |-> authenticatedUsers[sessionID].Token]

GitHubCall(api, token, payload) ==
  [api |-> api, token |-> token, payload |-> payload]

\* the text of an error returned by the GitHub client
GitHubError == "github: request failed"

\* gin.H{"error": ...} and gin.H{"message": ...} of the secret handlers
KeyFailureLabel(h) ==
  IF IsEnvHandler(h) THEN "Failed to get environment public key: "
  ELSE "Failed to get repository public key: "

SubmitFailureLabel(h) ==
  IF h = "createSecret" THEN "Failed to create repository secret: "
  ELSE IF h = "updateSecret" THEN "Failed to update repository secret: "
  ELSE IF h = "createEnvironmentSecret" THEN "Failed to create environment secret: "
  ELSE "Failed to update environment secret: "

SuccessMessage(h) ==
  IF h = "createSecret" THEN "Repository secret created successfully"
  ELSE IF h = "updateSecret" THEN "Repository secret updated successfully"
  ELSE IF h = "createEnvironmentSecret" THEN "Environment secret created successfully"
  ELSE "Environment secret updated successfully"

\* CorruptInputError: the position of the first letter that cannot be decoded
CorruptOffset(str) ==
  LET s == StripNewlines(str)
      bad == {j \in 1..Len(s) : decodeMap(s[j]) = -1}
  IN  IF bad = {} THEN Len(s)
      ELSE (CHOOSE j \in bad : \A k \in bad : j <= k) - 1

\* the text of the error encryptSecret returned for this key string
encryptSecretError(publicKey, out) ==
  IF out.decodeErr
    THEN << "failed to decode public key: ",
            "illegal base64 data at input byte ", CorruptOffset(publicKey) >>
    ELSE << "failed to generate key pair: ", "unexpected EOF" >>

\* the message with the secret's value in it
EncryptFailureTextWithValue(slot, out) ==
  << "Failed to encrypt secret: ", encryptSecretError(slot.publicKey.key, out),
     slot.value >>

\* fmt.Sprintf("Failed to encrypt secret: %v", err)
EncryptFailureText(slot, out) ==
  << "Failed to encrypt secret: ", encryptSecretError(slot.publicKey.key, out) >>

\* the secret handlers up to their first request to GitHub
BeginSecret(r) ==
  /\ req[r].pc = "idle"
  /\ \E h \in SecretHandlers, sessionID \in SessionHeaders :
       LET user == getAuthenticatedUser(sessionID)
           started == [IdleRequest EXCEPT !.handler = h,
                                          !.env = << << "session", sessionID >> >>]
       IN  IF ~user.ok
             THEN req' = [req EXCEPT ![r] =
                            [started EXCEPT !.pc = "done", !.status = 401,
                                            !.body = << "Authentication required" >>]]
             ELSE \/ \* c.ShouldBindJSON fails
                     req' = [req EXCEPT ![r] =
                               [started EXCEPT !.pc = "done", !.status = 400,
                                               !.body = << "Invalid request body" >>,
                                               !.env = Append(@, << "bind", FALSE >>)]]
                  \/ \E v \in RequestValues :
                       req' = [req EXCEPT ![r] =
                                 [started EXCEPT
                                    !.pc = IF IsEnvHandler(h)
                                             THEN "getRepo" ELSE "getKey",
                                    !.token = user.token,
                                    !.value = v,
                                    !.received = v,
                                    !.env = Append(@, << "bind", TRUE >>)]]
  /\ UNCHANGED << authenticatedUsers, call, config, services, sync, listing, update >>

\* client.Repositories.Get (environment handlers only)
RepositoriesGet(r) ==
  /\ req[r].pc = "getRepo"
  /\ LET called == [req[r] EXCEPT !.calls =
                      Append(@, GitHubCall("Repositories.Get", req[r].token, << >>))]
     IN  \/ req' = [req EXCEPT ![r] =
                      [called EXCEPT !.pc = "done", !.status = 500, !.token = "",
                                     !.value = << >>,
                                     !.log = Append(@, << "Failed to get repository: ",
                                                          GitHubError >>),
                                     !.body = << "Failed to get repository: ",
                                                 GitHubError >>,
                                     !.env = Append(@, << "repository", FALSE >>)]]
         \/ req' = [req EXCEPT ![r] =
                      [called EXCEPT !.pc = "getKey",
                                     !.env = Append(@, << "repository", TRUE >>)]]
  /\ UNCHANGED << authenticatedUsers, call, config, services, sync, listing, update >>

PublicKeyAPI(h) == IF IsEnvHandler(h) THEN "GetEnvPublicKey" ELSE "GetRepoPublicKey"

SubmitAPI(h) ==
  IF IsEnvHandler(h) THEN "CreateOrUpdateEnvSecret" ELSE "CreateOrUpdateRepoSecret"

\* client.Actions.GetRepoPublicKey / GetEnvPublicKey
GetPublicKey(r) ==
  /\ req[r].pc = "getKey"
  /\ LET called == [req[r] EXCEPT !.calls =
                      Append(@, GitHubCall(PublicKeyAPI(req[r].handler),
                                           req[r].token, << >>))]
     IN  \/ req' = [req EXCEPT ![r] =
                      [called EXCEPT !.pc = "done", !.status = 500, !.token = "",
                                     !.value = << >>,
                                     !.log = Append(@, << KeyFailureLabel(req[r].handler),
                                                          GitHubError >>),
                                     !.body = << KeyFailureLabel(req[r].handler),
                                                 GitHubError >>,
                                     !.env = Append(@, << "publicKey", FALSE >>)]]
         \/ \E k \in PublicKeyResponses :
              req' = [req EXCEPT ![r] =
                        [called EXCEPT !.pc = "encrypt", !.publicKey = k,
                                       !.fetchedKey = k,
                                       !.env = Append(@, << "publicKey", k >>)]]
  /\ UNCHANGED << authenticatedUsers, call, config, services, sync, listing, update >>

\* the handler going on to submit whatever encryptSecret returned
EncryptOutcomeIgnoringErr(slot, out) ==
  [slot EXCEPT !.sealCalls = @ + 1, !.sealErr = out.err, !.value = << >>,
               !.sealedFor = slot.publicKey.key, !.sealReturned = out.result,
               !.env = Append(@, << "rand", out.rnd.ok >>),
               !.pc = "submit", !.encryptedValue = out.result]

\* encryptedValue, err := encryptSecret(...); if err != nil { 500; return }
EncryptOutcome(slot, out) ==
  LET after == [slot EXCEPT !.sealCalls = @ + 1, !.sealErr = out.err,
                            !.sealedFor = slot.publicKey.key,
                            !.sealReturned = out.result,
                            !.env = Append(@, << "rand", out.rnd.ok >>),
                            !.value = << >>]
  IN  IF out.err
        THEN [after EXCEPT !.pc = "done", !.status = 500, !.token = "",
                           !.log = Append(@, EncryptFailureText(slot, out)),
                           !.body = EncryptFailureText(slot, out),
                           !.publicKey = NoKey]
        ELSE [after EXCEPT !.pc = "submit", !.encryptedValue = out.result]

\* the handler's call of encryptSecret(publicKey.GetKey(), req.Value)
Encrypt(r) ==
  /\ req[r].pc = "encrypt"
  /\ \E rnd \in RandOutcomes :
       req' = [req EXCEPT ![r] =
                 EncryptOutcome(req[r],
                   encryptSecret(req[r].publicKey.key, req[r].value, rnd))]
  /\ UNCHANGED << authenticatedUsers, call, config, services, sync, listing, update >>

\* the payload built with a key identifier kept from an earlier request
EncryptedSecretStaleKeyID(keyID, encryptedValue) ==
  [KeyID |-> "idA", EncryptedValue |-> encryptedValue]

\* github.EncryptedSecret{KeyID, EncryptedValue}
EncryptedSecret(keyID, encryptedValue) ==
  [KeyID |-> keyID, EncryptedValue |-> encryptedValue]

\* client.Actions.CreateOrUpdateRepoSecret / CreateOrUpdateEnvSecret
CreateOrUpdateSecret(r) ==
  /\ req[r].pc = "submit"
  /\ LET secret == EncryptedSecret(req[r].publicKey.keyID, req[r].encryptedValue)
         called == [req[r] EXCEPT
                      !.calls = Append(@, GitHubCall(SubmitAPI(req[r].handler),
                                                     req[r].token, secret)),
                      !.pc = "done", !.token = "", !.publicKey = NoKey]
     IN  \/ req' = [req EXCEPT ![r] =
                      [called EXCEPT !.status = 500,
                                     !.log = Append(@, << "GitHub API Error: ",
                                                          GitHubError >>),
                                     !.body = << SubmitFailureLabel(req[r].handler),
                                                 GitHubError >>,
                                     !.env = Append(@, << "submit", FALSE >>)]]
         \/ req' = [req EXCEPT ![r] =
                      [called EXCEPT !.status =
                         IF IsCreateHandler(req[r].handler) THEN 201 ELSE 200,
                                     !.body = << SuccessMessage(req[r].handler) >>,
                                     !.env = Append(@, << "submit", TRUE >>)]]
  /\ UNCHANGED << authenticatedUsers, call, config, services, sync, listing, update >>

\* the response has been written; the goroutine serves the next request
Finish(r) ==
  /\ req[r].pc = "done"
  /\ req' = [req EXCEPT ![r] = IdleRequest]
  /\ UNCHANGED << authenticatedUsers, call, config, services, sync, listing, update >>

\* authenticateWithPAT and validateToken up to their request to GitHub,
\* for the tokens the clients hold
BeginAuthOf(r, tokens) ==
  /\ req[r].pc = "idle"
  /\ \E h \in AuthHandlers :
       LET started == [IdleRequest EXCEPT !.handler = h]
       IN  \/ \* c.ShouldBindJSON fails
              req' = [req EXCEPT ![r] =
                        [started EXCEPT
                           !.pc = "done", !.status = 400,
                           !.body = IF h = "validateToken"
                                      THEN << "Invalid request body" >>
                                      ELSE << "Token is required" >>,
                           !.env = << << "bind", FALSE >> >>]]
           \/ \E t \in tokens :
                req' = [req EXCEPT ![r] =
                          [started EXCEPT !.pc = "getUser", !.token = t,
                                          !.authToken = t,
                                          !.env = << << "bind", TRUE >> >>]]
  /\ UNCHANGED << authenticatedUsers, call, config, services, sync, listing, update >>

BeginAuth(r) == BeginAuthOf(r, Tokens)

\* a User whose Token is not the one of the request
UserWithoutToken(login, token) ==
  [Login |-> login, Name |-> GitHubName(login),
   AvatarURL |-> GitHubAvatarURL(login), Token |-> ""]

User(login, token) ==
  [Login |-> login, Name |-> GitHubName(login),
   AvatarURL |-> GitHubAvatarURL(login), Token |-> token]

\* the user object with the Token field marshalled as well
UserJSONWithToken(user) ==
  [login |-> user.Login, name |-> user.Name, avatarUrl |-> user.AvatarURL,
   token |-> user.Token]

\* gin.H{"login": ..., "name": ..., "avatarUrl": ...}
UserJSON(user) ==
  [login |-> user.Login, name |-> user.Name, avatarUrl |-> user.AvatarURL]

\* GET /user answered, or not, and the rest of the handler
GetUser(r) ==
  /\ req[r].pc = "getUser"
  /\ LET h == req[r].handler
         t == req[r].token
         called == [req[r] EXCEPT !.calls = Append(@, GitHubCall("Users.Get", t, << >>)),
                                  !.pc = "done", !.token = ""]
         login == GitHubLogin(t)
     IN  \/ \* the request fails, or the user data cannot be decoded
            /\ \E failure \in {"Failed to validate token", "Failed to parse user data"} :
                 req' = [req EXCEPT ![r] =
                           [called EXCEPT
                              !.status = IF h = "validateToken" THEN 401 ELSE 500,
                              !.body = IF h = "validateToken"
                                         THEN << "Invalid token" >>
                                         ELSE << failure >>,
                              !.env = Append(@, << "user", failure >>)]]
            /\ UNCHANGED authenticatedUsers
         \/ \* GitHub rejects the token
            /\ login = ""
            /\ req' = [req EXCEPT ![r] =
                         [called EXCEPT !.status = 401,
                                        !.body = << "Invalid token" >>,
                                        !.env = Append(@, << "user", "rejected" >>)]]
            /\ UNCHANGED authenticatedUsers
         \/ \* GitHub returns the user
            /\ login # ""
            /\ authenticatedUsers' =
                 (SessionIDFor(login) :> User(login, t)) @@ authenticatedUsers
            /\ req' = [req EXCEPT ![r] =
                         [called EXCEPT
                            !.status = 200,
                            !.sessionId = SessionIDFor(login),
                            !.body = << IF h = "validateToken" THEN ""
                                        ELSE "Authentication successful",
                                        SessionIDFor(login),
                                        UserJSON(User(login, t)) >>,
                            !.env = Append(@, << "user", login >>)]]
  /\ UNCHANGED << call, config, services, sync, listing, update >>

Next ==
  \E r \in Requests :
    \/ BeginSecret(r)
    \/ RepositoriesGet(r)
    \/ GetPublicKey(r)
    \/ Encrypt(r)
    \/ CreateOrUpdateSecret(r)
    \/ Finish(r)
    \/ BeginAuth(r)
    \/ GetUser(r)

Spec == Init /\ [][Next]_vars


(***************************************************************************)
(* The authentication endpoints, getAuthStatus and the guard every other   *)
(* handler starts with, for clients that hold several tokens and present   *)
(* any session header.                                                     *)
(***************************************************************************)
\* the handlers that start with getAuthenticatedUser
GuardedHandlers ==
  {"getRepositories", "getEnvironments", "createEnvironment", "getVariables",
   "getSecrets", "getEnvironmentVariables", "getEnvironmentSecrets",
   "createEnvironmentVariable", "updateEnvironmentVariable",
   "deleteEnvironmentVariable", "createEnvironmentSecret",
   "updateEnvironmentSecret", "deleteEnvironmentSecret", "createVariable",
   "updateVariable", "deleteVariable", "createSecret", "updateSecret",
   "deleteSecret", "syncVariables", "exportVariables", "importVariables",
   "compareEnvironments"}

\* the most requests to GitHub a guarded handler is followed through
MaxGuardedCalls == 1

\* the token the map holds for a session header, "" when it holds none
StoredToken(sessionID) ==
  IF sessionID \in DOMAIN authenticatedUsers
    THEN authenticatedUsers[sessionID].Token ELSE ""

\* getAuthStatus: the header, the map lookup and the answer
getAuthStatus(r) ==
  /\ req[r].pc = "idle"
  /\ \E sessionID \in AllSessionHeaders :
       LET started == [IdleRequest EXCEPT !.handler = "getAuthStatus",
                                          !.pc = "done",
                                          !.sessionHeader = sessionID,
                                          !.sessionToken = StoredToken(sessionID)]
       IN  IF sessionID = ""
             THEN req' = [req EXCEPT ![r] =
                            [started EXCEPT !.status = 401,
                                            !.body = << "No session" >>,
                                            !.env = << << "session", sessionID >> >>]]
           ELSE IF sessionID \notin DOMAIN authenticatedUsers
             THEN req' = [req EXCEPT ![r] =
                            [started EXCEPT !.status = 401,
                                            !.body = << "Invalid session" >>,
                                            !.env = << << "session", sessionID >> >>]]
           ELSE req' = [req EXCEPT ![r] =
                          [started EXCEPT
                             !.status = 200,
                             !.body = << UserJSON(authenticatedUsers[sessionID]) >>,
                             !.env = << << "session", sessionID >>,
                                        << "user", authenticatedUsers[sessionID].Login >> >>]]
  /\ UNCHANGED << authenticatedUsers, call, config, services, sync, listing, update >>

\* the first statements of every guarded handler
BeginGuarded(r) ==
  /\ req[r].pc = "idle"
  /\ \E h \in GuardedHandlers, sessionID \in AllSessionHeaders :
       LET user == getAuthenticatedUser(sessionID)
           started == [IdleRequest EXCEPT !.handler = h,
                                          !.sessionHeader = sessionID,
                                          !.sessionToken = StoredToken(sessionID)]
       IN  IF ~user.ok
             THEN req' = [req EXCEPT ![r] =
                            [started EXCEPT !.pc = "done", !.status = 401,
                                            !.body = << "Authentication required" >>]]
             ELSE req' = [req EXCEPT ![r] =
                            [started EXCEPT !.pc = "github", !.token = user.token]]
  /\ UNCHANGED << authenticatedUsers, call, config, services, sync, listing, update >>

\* the rest of a guarded handler: requests to GitHub with user.Token, then
\* the response
GuardedCall(r) ==
  /\ req[r].pc = "github"
  /\ \/ /\ Len(req[r].calls) < MaxGuardedCalls
        /\ req' = [req EXCEPT ![r].calls =
                     Append(@, GitHubCall(req[r].handler, req[r].token, << >>))]
     \/ \E status \in {200, 500} :
          req' = [req EXCEPT ![r] =
                    [@ EXCEPT !.pc = "done", !.status = status, !.token = ""]]
  /\ UNCHANGED << authenticatedUsers, call, config, services, sync, listing, update >>

AuthNext ==
  \E r \in Requests :
    \/ BeginAuthOf(r, AllTokens)
    \/ GetUser(r)
    \/ getAuthStatus(r)
    \/ Finish(r)

AuthSpec == Init /\ [][AuthNext]_vars

GuardNext ==
  \E r \in Requests :
    \/ BeginAuthOf(r, AllTokens)
    \/ GetUser(r)
    \/ BeginGuarded(r)
    \/ GuardedCall(r)
    \/ Finish(r)

GuardSpec == Init /\ [][GuardNext]_vars

(***************************************************************************)
(* The accesses of the handlers to the map authenticatedUsers, each        *)
(* followed from its begin to its end.  The map is a plain Go map and the  *)
(* file has no lock: gin runs every request in a goroutine of its own.  An *)
(* access that overlaps a write is a data race; the Go runtime either      *)
(* detects it and ends the process with a fatal error, or lets the access  *)
(* go on, and a read then sees the entry from before or from after the     *)
(* write.                                                                  *)
(***************************************************************************)
MapReaders == {"getAuthStatus"} \cup GuardedHandlers

\* the requests other than r that are inside a write of the map
Storing(r) == {w \in Requests \ {r} : req[w].pc = "storing"}

\* the requests other than r that are inside a read of the map
Reading(r) == {o \in Requests \ {r} : req[o].pc = "reading"}

\* throw("concurrent map writes"), throw("concurrent map read and map
\* write"): the process ends, and every request with it
Throw(message) ==
  req' = [q \in Requests |->
            [req[q] EXCEPT !.pc = "fatal", !.body = << message >>]]

\* GET /user answered; with a user, the handler reaches its assignment to
\* the map
AnswerUser(r) ==
  /\ req[r].pc = "getUser"
  /\ LET h == req[r].handler
         t == req[r].token
         called == [req[r] EXCEPT !.calls = Append(@, GitHubCall("Users.Get", t, << >>))]
     IN  \/ req' = [req EXCEPT ![r] =
                      [called EXCEPT !.pc = "done", !.token = "",
                                     !.status = IF h = "validateToken" \/ GitHubLogin(t) = ""
                                                  THEN 401 ELSE 500,
                                     !.body = << "Invalid token" >>]]
         \/ /\ GitHubLogin(t) # ""
            /\ req' = [req EXCEPT ![r] = [called EXCEPT !.pc = "storing"]]
  /\ UNCHANGED << authenticatedUsers, call, config, services, sync, listing, update >>

\* authenticatedUsers[sessionID] = user, and the response after it
EndStore(r) ==
  /\ req[r].pc = "storing"
  /\ LET t == req[r].token
         login == GitHubLogin(t)
     IN  \/ /\ Storing(r) # {}
            /\ Throw("fatal error: concurrent map writes")
            /\ UNCHANGED authenticatedUsers
         \/ /\ authenticatedUsers' =
                 (SessionIDFor(login) :> User(login, t)) @@ authenticatedUsers
            /\ req' = [req EXCEPT ![r] =
                         [@ EXCEPT !.pc = "done", !.token = "", !.status = 200,
                                   !.sessionId = SessionIDFor(login),
                                   !.body = << IF req[r].handler = "validateToken" THEN ""
                                               ELSE "Authentication successful",
                                               SessionIDFor(login),
                                               UserJSON(User(login, t)) >>]]
  /\ UNCHANGED << call, config, services, sync, listing, update >>

\* c.GetHeader("X-Session-ID") of getAuthStatus and getAuthenticatedUser,
\* up to the lookup in the map
BeginRead(r) ==
  /\ req[r].pc = "idle"
  /\ \E h \in MapReaders, sessionID \in AllSessionHeaders :
       LET started == [IdleRequest EXCEPT !.handler = h,
                                          !.sessionHeader = sessionID]
       IN  IF sessionID = ""
             THEN req' = [req EXCEPT ![r] =
                            [started EXCEPT !.pc = "done", !.status = 401,
                                            !.body = << IF h = "getAuthStatus"
                                                          THEN "No session"
                                                          ELSE "Authentication required" >>]]
             ELSE req' = [req EXCEPT ![r] = [started EXCEPT !.pc = "reading"]]
  /\ UNCHANGED << authenticatedUsers, call, config, services, sync, listing, update >>

\* the tokens a lookup of sessionID by r can see
Visible(r, sessionID) ==
  {StoredToken(sessionID)} \cup
  {req[w].token : w \in {x \in Storing(r) :
                           SessionIDFor(GitHubLogin(req[x].token)) = sessionID}}

\* user, exists := authenticatedUsers[sessionID], and what follows from it
EndRead(r) ==
  /\ req[r].pc = "reading"
  /\ \/ /\ Storing(r) # {}
        /\ Throw("fatal error: concurrent map read and map write")
     \/ \E seen \in Visible(r, req[r].sessionHeader) :
          req' = [req EXCEPT ![r] =
                    [@ EXCEPT !.pc = "done", !.sessionToken = seen,
                              !.status = IF seen = "" THEN 401 ELSE 200,
                              !.body = IF seen # "" THEN << >>
                                       ELSE IF req[r].handler = "getAuthStatus"
                                         THEN << "Invalid session" >>
                                       ELSE << "Authentication required" >>]]
  /\ UNCHANGED << authenticatedUsers, call, config, services, sync, listing, update >>

RaceNext ==
  \E r \in Requests :
    \/ BeginAuthOf(r, AllTokens)
    \/ AnswerUser(r)
    \/ EndStore(r)
    \/ BeginRead(r)
    \/ EndRead(r)
    \/ Finish(r)

RaceSpec == Init /\ [][RaceNext]_vars

(***************************************************************************)
(* encryptSecret called directly, by concurrent callers, on every kind of  *)
(* key string.                                                             *)
(***************************************************************************)
Invoke(c) ==
  /\ call[c].pc = "idle"
  /\ \E k \in KeyStrings, v \in Plaintexts :
       call' = [call EXCEPT ![c] =
                  [IdleCall EXCEPT !.pc = "running", !.publicKey = k,
                                   !.secretValue = v]]
  /\ UNCHANGED << authenticatedUsers, req, config, services, sync, listing, update >>

Run(c) ==
  /\ call[c].pc = "running"
  /\ \E rnd \in RandOutcomes :
       call' = [call EXCEPT ![c] =
                  [@ EXCEPT !.pc = "returned",
                            !.out = encryptSecret(call[c].publicKey,
                                                  call[c].secretValue, rnd)]]
  /\ UNCHANGED << authenticatedUsers, req, config, services, sync, listing, update >>

Return(c) ==
  /\ call[c].pc = "returned"
  /\ call' = [call EXCEPT ![c] = IdleCall]
  /\ UNCHANGED << authenticatedUsers, req, config, services, sync, listing, update >>

SealNext == \E c \in Callers : Invoke(c) \/ Run(c) \/ Return(c)

SealSpec == Init /\ [][SealNext]_vars


(***************************************************************************)
(* encryptSecret statement by statement: concurrent calls interleave       *)
(* between the calls of the primitives.  The locals of a call live in its  *)
(* own record; rand.Reader is the only thing the calls share.              *)
(***************************************************************************)
ReentrantKeys ==
  {EncodeToString(RecipientPubA), EncodeToString(RecipientPubB), CorruptKey}

Enter(c) ==
  /\ call[c].pc = "idle"
  /\ \E k \in ReentrantKeys, v \in Plaintexts :
       call' = [call EXCEPT ![c] =
                  [IdleCall EXCEPT !.pc = "entered", !.publicKey = k,
                                   !.secretValue = v]]
  /\ UNCHANGED << authenticatedUsers, req, config, services, sync, listing, update >>

\* decodedKey, err := DecodeString(publicKey); copy(recipientKey[:], decodedKey)
StepDecode(c) ==
  /\ call[c].pc = "entered"
  /\ LET dec == DecodeString(call[c].publicKey)
         afterDecode == [NoSeal EXCEPT !.decodedKey = dec.bytes,
                                       !.decodeErr = dec.err]
     IN  IF dec.err
           THEN call' = [call EXCEPT ![c].pc = "returned",
                                     ![c].out = ErrorReturn(afterDecode)]
           ELSE call' = [call EXCEPT ![c].pc = "decoded",
                           ![c].out = [afterDecode EXCEPT !.recipientKey =
                                         CopyInto(KeySize, dec.bytes)]]
  /\ UNCHANGED << authenticatedUsers, req, config, services, sync, listing, update >>

\* ephemeralPub, ephemeralPriv, err := box.GenerateKey(rand.Reader)
StepGenerate(c) ==
  /\ call[c].pc = "decoded"
  /\ \E rnd \in RandOutcomes :
       LET gen == GenerateKey(rnd)
           afterGenerate == [call[c].out EXCEPT !.drew = TRUE, !.rnd = rnd,
                                                !.genErr = gen.err,
                                                !.ephemeralPub = gen.pub,
                                                !.ephemeralPriv = gen.priv]
       IN  IF gen.err
             THEN call' = [call EXCEPT ![c].pc = "returned",
                                       ![c].out = ErrorReturn(afterGenerate)]
             ELSE call' = [call EXCEPT ![c].pc = "generated",
                                       ![c].out = afterGenerate]
  /\ UNCHANGED << authenticatedUsers, req, config, services, sync, listing, update >>

\* the hash of the two keys, copied into the call's nonce array
StepNonce(c) ==
  /\ call[c].pc = "generated"
  /\ LET written == HashWritten(call[c].out.ephemeralPub, call[c].out.recipientKey)
     IN  call' = [call EXCEPT ![c].pc = "hashed",
                    ![c].out = [@ EXCEPT !.hashErr = Blake2bNewErr(NonceSize, << >>),
                                         !.written = written,
                                         !.nonce = Nonce(written)]]
  /\ UNCHANGED << authenticatedUsers, req, config, services, sync, listing, update >>

\* a nonce array shared by all calls (the one the first caller writes)
SealNonceShared(c) == call["c1"].out.nonce

\* &nonce: the array declared in this call
SealNonce(c) == call[c].out.nonce

\* encrypted := box.Seal(nil, []byte(secretValue), &nonce, &recipientKey, ephemeralPriv)
StepSeal(c) ==
  /\ call[c].pc = "hashed"
  /\ call' = [call EXCEPT ![c].pc = "sealed",
                ![c].out = [@ EXCEPT
                   !.sealed = TRUE,
                   !.sealPeer = call[c].out.recipientKey,
                   !.sealPriv = call[c].out.ephemeralPriv,
                   !.sealMsg = call[c].secretValue,
                   !.encrypted = BoxSeal(call[c].secretValue, SealNonce(c),
                                         call[c].out.recipientKey,
                                         call[c].out.ephemeralPriv)]]
  /\ UNCHANGED << authenticatedUsers, req, config, services, sync, listing, update >>

\* the append and the return of the encoded message
StepEncode(c) ==
  /\ call[c].pc = "sealed"
  /\ call' = [call EXCEPT ![c].pc = "returned",
                ![c].out = [@ EXCEPT
                   !.result = EncodeToString(
                                EncryptedMessage(call[c].out.ephemeralPub,
                                                 call[c].out.encrypted)),
                   !.err = FALSE]]
  /\ UNCHANGED << authenticatedUsers, req, config, services, sync, listing, update >>

ReentrantNext ==
  \E c \in Callers :
    \/ Enter(c)
    \/ StepDecode(c)
    \/ StepGenerate(c)
    \/ StepNonce(c)
    \/ StepSeal(c)
    \/ StepEncode(c)
    \/ Return(c)

ReentrantSpec == Init /\ [][ReentrantNext]_vars


(***************************************************************************)
(* A sealed secret on its way to the recipient: one bit after the          *)
(* ephemeral key is flipped and the holder of a recipient key opens what   *)
(* arrives.                                                                *)
(***************************************************************************)
FlipBit(bytes, at, bit) ==
  [bytes EXCEPT ![at] = Xor(@, IF bit = 0 THEN 1 ELSE 2 ^ bit)]

Tamper(c) ==
  /\ call[c].pc = "returned"
  /\ ~call[c].out.err
  /\ call[c].tampered = NoTamper
  /\ LET message == call[c].out.ephemeralPub \o call[c].out.encrypted
     IN  \E at \in (KeySize + 1)..Len(message), bit \in 0..7,
            priv \in RecipientPrivs :
           call' = [call EXCEPT ![c].tampered =
                      [at |-> at, bit |-> bit,
                       intact |-> Unseal(call[c].out.result,
                                         ScalarBaseMult(priv), priv).ok,
                       opened |-> Unseal(EncodeToString(FlipBit(message, at, bit)),
                                         ScalarBaseMult(priv), priv).ok]]
  /\ UNCHANGED << authenticatedUsers, req, config, services, sync, listing, update >>

TamperNext ==
  \/ Enter("c1") \/ StepDecode("c1") \/ StepGenerate("c1") \/ StepNonce("c1")
  \/ StepSeal("c1") \/ StepEncode("c1") \/ Tamper("c1") \/ Return("c1")

TamperSpec == Init /\ [][TamperNext]_vars


(***************************************************************************)
(* internal/config: Config.LoadFromEnv and Config.Validate, applied to     *)
(* every Config and environment of the sets below.                         *)
(***************************************************************************)
ErrInvalidPort == "invalid port number"

ErrInvalidHost == "invalid host configuration"

Nil == "nil"

Digits == << "0", "1", "2", "3", "4", "5", "6", "7", "8", "9" >>

IsDigit(ch) == \E d \in 1..10 : Digits[d] = ch

DigitValue(ch) == (CHOOSE d \in 1..10 : Digits[d] = ch) - 1

RECURSIVE DecimalValue(_)
DecimalValue(s) ==
  IF s = << >> THEN 0
  ELSE DecimalValue(SubSeq(s, 1, Len(s) - 1)) * 10 + DigitValue(s[Len(s)])

\* strconv.Atoi: an optional sign and then digits only, at least one (the
\* strings of PortStrings stay far below the range of int)
Atoi(s) ==
  LET signed == Len(s) > 0 /\ s[1] \in {"+", "-"}
      body == IF signed THEN Tail(s) ELSE s
  IN  IF Len(body) = 0 \/ \E i \in 1..Len(body) : ~IsDigit(body[i])
        THEN [n |-> 0, err |-> TRUE]
        ELSE [n |-> IF signed /\ s[1] = "-" THEN 0 - DecimalValue(body)
                    ELSE DecimalValue(body),
              err |-> FALSE]

\* os.Getenv: the value of a variable, empty when it is not set
Getenv(variable, empty) == IF variable.set THEN variable.value ELSE empty

\* LoadFromEnv storing whatever Atoi returned
LoadedConfigUnchecked(c, environ) ==
  LET host == Getenv(environ.HOST, "")
      portStr == Getenv(environ.PORT, << >>)
      withHost == IF host # "" THEN [c EXCEPT !.Server.Host = host] ELSE c
  IN  IF portStr # << >>
        THEN [withHost EXCEPT !.Server.Port = Atoi(portStr).n]
        ELSE withHost

\* the Config that LoadFromEnv leaves behind
LoadedConfig(c, environ) ==
  LET host == Getenv(environ.HOST, "")
      portStr == Getenv(environ.PORT, << >>)
      withHost == IF host # "" THEN [c EXCEPT !.Server.Host = host] ELSE c
  IN  IF portStr # << >> /\ ~Atoi(portStr).err
        THEN [withHost EXCEPT !.Server.Port = Atoi(portStr).n]
        ELSE withHost

\* Validate looking at the host before the port
ValidatedHostFirst(c) ==
  [c |-> c,
   err |-> IF c.Server.Host = "" THEN ErrInvalidHost
           ELSE IF c.Server.Port <= 0 \/ c.Server.Port > 65535 THEN ErrInvalidPort
           ELSE Nil]

\* the Config after Validate and the error Validate returns
Validated(c) ==
  [c |-> c,
   err |-> IF c.Server.Port <= 0 \/ c.Server.Port > 65535 THEN ErrInvalidPort
           ELSE IF c.Server.Host = "" THEN ErrInvalidHost
           ELSE Nil]

Hosts == {"", "localhost", "0.0.0.0"}

Ports == {0 - 1, 0, 1, 8080, 65535, 65536, 70000}

Configs == {[Server |-> [Host |-> h, Port |-> p]] : h \in Hosts, p \in Ports}

PortStrings ==
  { << >>, << "3", "0", "0", "0" >>, << "0" >>, << "-", "1" >>,
    << "+", "8", "0" >>, << "7", "0", "0", "0", "0" >>, << "a", "b", "c" >>,
    << "8", "0", "a" >>, << " ", "8", "0" >>, << "-" >>, << "8", ".", "0" >> }

Environs ==
  {[HOST |-> h, PORT |-> p] :
     h \in {[set |-> FALSE, value |-> ""]}
            \cup {[set |-> TRUE, value |-> v] : v \in {"", "0.0.0.0"}},
     p \in {[set |-> FALSE, value |-> << >>]}
            \cup {[set |-> TRUE, value |-> v] : v \in PortStrings}}

ConfigInit ==
  /\ authenticatedUsers = [s \in {} |-> ""]
  /\ req = [r \in Requests |-> IdleRequest]
  /\ call = [c \in Callers |-> IdleCall]
  /\ services = IdleServices
  /\ sync = IdleSync
  /\ listing = IdleListing
  /\ update = IdleUpdate
  /\ config \in {[IdleConfig EXCEPT !.pc = "new", !.cfg = c, !.before = c,
                                     !.environ = e] :
                   c \in Configs, e \in Environs}

LoadFromEnv ==
  /\ config.pc = "new"
  /\ config' = [config EXCEPT !.pc = "loaded",
                              !.before = config.cfg,
                              !.cfg = LoadedConfig(config.cfg, config.environ)]
  /\ UNCHANGED << authenticatedUsers, req, call, services, sync, listing, update >>

Validate ==
  /\ config.pc \in {"new", "loaded"}
  /\ LET v == Validated(config.cfg)
     IN  config' = [config EXCEPT !.pc = "validated", !.before = config.cfg,
                                 !.cfg = v.c, !.err = v.err]
  /\ UNCHANGED << authenticatedUsers, req, call, services, sync, listing, update >>

ConfigNext == LoadFromEnv \/ Validate

ConfigSpec == ConfigInit /\ [][ConfigNext]_vars


(***************************************************************************)
(* The command: main parses the flags, startServer builds the Config from  *)
(* them, server.New formats the address and Start listens on it.           *)
(***************************************************************************)
\* var host = "localhost" and the default of the --host flag
DefaultHost == "localhost"

\* var port = 8080 and the default of the --port flag
DefaultPort == 8080

RECURSIVE FormatDecimal(_)
FormatDecimal(n) ==
  IF n < 10 THEN << Digits[n + 1] >>
  ELSE Append(FormatDecimal(n \div 10), Digits[(n % 10) + 1])

\* the verb %d
FormatInt(n) == IF n < 0 THEN << "-" >> \o FormatDecimal(0 - n) ELSE FormatDecimal(n)

\* fmt.Sprintf("%s:%d", cfg.Server.Host, cfg.Server.Port)
Addr(cfg) == << cfg.Server.Host, ":" >> \o FormatInt(cfg.Server.Port)

\* the command line: --host and --port given or not
CommandLines ==
  {[host |-> h, port |-> p] :
     h \in {[given |-> FALSE, value |-> ""]}
            \cup {[given |-> TRUE, value |-> v] : v \in {"0.0.0.0", "127.0.0.1"}},
     p \in {[given |-> FALSE, value |-> 0]}
            \cup {[given |-> TRUE, value |-> v] : v \in {3000, 9090}}}

ServeInit ==
  /\ authenticatedUsers = [s \in {} |-> ""]
  /\ req = [r \in Requests |-> IdleRequest]
  /\ call = [c \in Callers |-> IdleCall]
  /\ services = IdleServices
  /\ sync = IdleSync
  /\ listing = IdleListing
  /\ update = IdleUpdate
  /\ config \in {[IdleConfig EXCEPT !.pc = "main", !.args = a, !.environ = e,
                                     !.host = DefaultHost, !.port = DefaultPort] :
                   a \in CommandLines, e \in Environs}

\* rootCmd.Execute: the flags are parsed into the variables host and port
Execute ==
  /\ config.pc = "main"
  /\ config' = [config EXCEPT
                  !.pc = "parsed",
                  !.host = IF config.args.host.given
                             THEN config.args.host.value ELSE DefaultHost,
                  !.port = IF config.args.port.given
                             THEN config.args.port.value ELSE DefaultPort]
  /\ UNCHANGED << authenticatedUsers, req, call, services, sync, listing, update >>

\* cfg := &config.Config{Server: config.ServerConfig{Host: host, Port: port}}
startServer ==
  /\ config.pc = "parsed"
  /\ config' = [config EXCEPT
                  !.pc = "configured",
                  !.cfg = [Server |-> [Host |-> config.host, Port |-> config.port]]]
  /\ UNCHANGED << authenticatedUsers, req, call, services, sync, listing, update >>

\* server.New: the http.Server and its Addr
New ==
  /\ config.pc = "configured"
  /\ config' = [config EXCEPT !.pc = "created", !.addr = Addr(config.cfg)]
  /\ UNCHANGED << authenticatedUsers, req, call, services, sync, listing, update >>

\* srv.Start: ListenAndServe binds the address, or fails to
Start ==
  /\ config.pc = "created"
  /\ \/ config' = [config EXCEPT !.pc = "listening", !.bound = config.addr]
     \/ config' = [config EXCEPT !.pc = "failed", !.err = "listen"]
  /\ UNCHANGED << authenticatedUsers, req, call, services, sync, listing, update >>

ServeNext == Execute \/ startServer \/ New \/ Start

ServeSpec == ServeInit /\ [][ServeNext]_vars


(***************************************************************************)
(* syncVariables, request by request to GitHub.  GitHub keeps the          *)
(* variables of a repository and those of each of its environments apart:  *)
(* /repos/{owner}/{repo}/actions/variables names the former.               *)
(***************************************************************************)
RECURSIVE Split(_, _)
\* strings.Split
Split(str, sep) ==
  IF \E i \in 1..Len(str) : str[i] = sep
    THEN LET i == CHOOSE j \in 1..Len(str) :
                    str[j] = sep /\ \A k \in 1..(j - 1) : str[k] # sep
         IN  << SubSeq(str, 1, i - 1) >> \o Split(SubSeq(str, i + 1, Len(str)), sep)
    ELSE << str >>

\* contains(slice, item)
contains(slice, item) == \E i \in 1..Len(slice) : slice[i] = item

\* fmt.Sprintf("https://api.github.com/repos/%s/%s/actions/variables", owner, repo)
VariablesURL(owner, repo) == << "repos", owner, repo, "actions", "variables" >>

\* the variable lists GitHub keeps, with one variable created or updated
PutVariable(list, name, value) ==
  IF \E i \in 1..Len(list) : list[i].Name = name
    THEN [i \in 1..Len(list) |->
            IF list[i].Name = name THEN [Name |-> name, Value |-> value] ELSE list[i]]
    ELSE Append(list, [Name |-> name, Value |-> value])

RepoA == << "o", "/", "a" >>

RepoB == << "o", "/", "b" >>

\* a repository name without the owner
BadRepo == << "o", "b" >>

SyncRequests ==
  {[SourceRepo |-> sr, SourceEnv |-> "staging", TargetRepos |-> tr,
    TargetEnvs |-> te, VariableNames |-> vn] :
     sr \in {RepoA, BadRepo},
     tr \in {<< RepoB >>, << BadRepo, RepoB >>, << >>},
     te \in {<< "prod" >>, << "prod", "qa" >>},
     vn \in {<< >>, << "X" >>, << "Z" >>}}

\* what GitHub holds when the request arrives: two variables of repository
\* o/a, two variables of its environment staging, nothing in o/b
GitHubVariables ==
  [repoVars |-> [r \in {<< << "o" >>, << "a" >> >>, << << "o" >>, << "b" >> >>} |->
                   IF r[2] = << "a" >>
                     THEN << [Name |-> "R", Value |-> "r0"], [Name |-> "X", Value |-> "0"] >>
                   ELSE << >>],
   envVars |-> [e \in {<< << "o" >>, << "a" >>, "staging" >>,
                        << << "o" >>, << "b" >>, "prod" >>,
                        << << "o" >>, << "b" >>, "qa" >>} |->
                  IF e[3] = "staging"
                    THEN << [Name |-> "X", Value |-> "1"], [Name |-> "Y", Value |-> "2"] >>
                    ELSE << >>]]

\* a user has logged in, GitHub holds its variables
SyncInit ==
  /\ authenticatedUsers =
       (SessionIDFor("alice") :> User("alice", "tokA"))
  /\ req = [r \in Requests |-> IdleRequest]
  /\ call = [c \in Callers |-> IdleCall]
  /\ config = IdleConfig
  /\ services = IdleServices
  /\ sync = [IdleSync EXCEPT !.github = GitHubVariables]
  /\ listing = IdleListing
  /\ update = IdleUpdate

\* syncVariables up to its request for the source variables
BeginSync ==
  /\ sync.pc = "idle"
  /\ \E sessionID \in SessionHeaders :
       LET user == getAuthenticatedUser(sessionID)
       IN  IF ~user.ok
             THEN sync' = [sync EXCEPT !.pc = "done", !.status = 401]
             ELSE \/ \* c.ShouldBindJSON fails
                     sync' = [sync EXCEPT !.pc = "done", !.status = 400]
                  \/ \E request \in SyncRequests :
                       IF Len(Split(request.SourceRepo, "/")) # 2
                         THEN sync' = [sync EXCEPT !.pc = "done", !.status = 400,
                                                   !.request = request]
                         ELSE sync' = [sync EXCEPT !.pc = "getSource",
                                                   !.request = request,
                                                   !.token = user.token]
  /\ UNCHANGED << authenticatedUsers, req, call, config, services, listing, update >>

\* client.Do(sourceReq) and the decoding of the answer
FetchSource ==
  /\ sync.pc = "getSource"
  /\ LET parts == Split(sync.request.SourceRepo, "/")
         sourceURL == VariablesURL(parts[1], parts[2])
         called == [sync EXCEPT !.calls =
                      Append(@, [method |-> "GET", url |-> sourceURL,
                                 token |-> sync.token, payload |-> << >>])]
     IN  \/ \* the request fails, the status is not 200, or the body does not parse
            sync' = [called EXCEPT !.pc = "done", !.status = 500]
         \/ /\ << sourceURL[2], sourceURL[3] >> \in DOMAIN sync.github.repoVars
            /\ sync' = [called EXCEPT
                          !.pc = "repoLoop", !.ti = 1,
                          !.sourceVariables =
                             sync.github.repoVars[<< sourceURL[2], sourceURL[3] >>]]
  /\ UNCHANGED << authenticatedUsers, req, call, config, services, listing, update >>

\* for _, targetRepo := range req.TargetRepos
RepoLoop ==
  /\ sync.pc = "repoLoop"
  /\ IF sync.ti > Len(sync.request.TargetRepos)
       THEN sync' = [sync EXCEPT !.pc = "respond"]
       ELSE IF Len(Split(sync.request.TargetRepos[sync.ti], "/")) # 2
         THEN sync' = [sync EXCEPT
                         !.errors = Append(@, << "Invalid target repo format: ",
                                                 sync.request.TargetRepos[sync.ti] >>),
                         !.ti = @ + 1]
         ELSE sync' = [sync EXCEPT !.pc = "envLoop", !.ei = 1]
  /\ UNCHANGED << authenticatedUsers, req, call, config, services, listing, update >>

\* for _, targetEnv := range req.TargetEnvs
EnvLoop ==
  /\ sync.pc = "envLoop"
  /\ IF sync.ei > Len(sync.request.TargetEnvs)
       THEN sync' = [sync EXCEPT !.pc = "repoLoop", !.ti = @ + 1, !.ei = 0]
       ELSE sync' = [sync EXCEPT !.pc = "varLoop", !.vi = 1]
  /\ UNCHANGED << authenticatedUsers, req, call, config, services, listing, update >>

\* for _, variable := range sourceVariables: the PUT of a selected variable
VarLoop ==
  /\ sync.pc = "varLoop"
  /\ IF sync.vi > Len(sync.sourceVariables)
       THEN sync' = [sync EXCEPT !.pc = "envLoop", !.ei = @ + 1, !.vi = 0]
       ELSE
         LET variable == sync.sourceVariables[sync.vi]
             targetRepo == sync.request.TargetRepos[sync.ti]
             targetEnv == sync.request.TargetEnvs[sync.ei]
             targetParts == Split(targetRepo, "/")
             targetURL == VariablesURL(targetParts[1], targetParts[2])
             repository == << targetURL[2], targetURL[3] >>
             called == [sync EXCEPT
                          !.vi = @ + 1,
                          !.calls = Append(@, [method |-> "PUT", url |-> targetURL,
                                               token |-> sync.token,
                                               payload |-> [name |-> variable.Name,
                                                            value |-> variable.Value]])]
         IN  IF Len(sync.request.VariableNames) = 0
                \/ contains(sync.request.VariableNames, variable.Name)
               THEN \/ \* 201 or 204: GitHub took the variable into the repository
                       /\ repository \in DOMAIN sync.github.repoVars
                       /\ sync' = [called EXCEPT
                                     !.syncedCount = @ + 1,
                                     !.github.repoVars[repository] =
                                        PutVariable(@, variable.Name, variable.Value)]
                    \/ \* the request fails
                       sync' = [called EXCEPT
                                  !.errors = Append(@, << "Failed to sync ", variable.Name,
                                                          targetRepo, targetEnv >>)]
                    \/ \* another status
                       sync' = [called EXCEPT
                                  !.errors = Append(@, << "Failed to sync ", variable.Name,
                                                          targetRepo, targetEnv,
                                                          "status" >>)]
               ELSE sync' = [sync EXCEPT !.vi = @ + 1]
  /\ UNCHANGED << authenticatedUsers, req, call, config, services, listing, update >>

\* c.JSON(http.StatusOK, response)
Respond ==
  /\ sync.pc = "respond"
  /\ sync' = [sync EXCEPT !.pc = "done", !.status = 200, !.token = ""]
  /\ UNCHANGED << authenticatedUsers, req, call, config, services, listing, update >>

SyncNext == BeginSync \/ FetchSource \/ RepoLoop \/ EnvLoop \/ VarLoop \/ Respond

SyncSpec == SyncInit /\ [][SyncNext]_vars


(***************************************************************************)
(* internal/services: StoreUser, GetUser, RemoveUser and                   *)
(* CleanupExpiredSessions called by concurrent goroutines, one statement   *)
(* at a time.                                                              *)
(***************************************************************************)
StoreUsers == {"alice", "bob"}

\* RLock that does not wait for the writer
CanRLockBesideWriter(mutex) == mutex.writer \in {""} \cup Goroutines

\* sync.RWMutex: RLock waits while a writer holds the mutex
CanRLock(mutex) == mutex.writer = ""

\* sync.RWMutex: Lock waits while a writer or any reader holds the mutex
CanLock(mutex) == mutex.writer = "" /\ mutex.readers = {}

StoreUser(g) ==
  /\ services.proc[g].pc = "idle"
  /\ \E id \in StoreIDs, u \in StoreUsers :
       services' = [services EXCEPT !.proc[g] =
                      [IdleGoroutine EXCEPT !.pc = "lock", !.op = "StoreUser",
                                            !.sessionID = id, !.user = u]]
  /\ UNCHANGED << authenticatedUsers, req, call, config, sync, listing, update >>

RemoveUser(g) ==
  /\ services.proc[g].pc = "idle"
  /\ \E id \in StoreIDs :
       services' = [services EXCEPT !.proc[g] =
                      [IdleGoroutine EXCEPT !.pc = "lock", !.op = "RemoveUser",
                                            !.sessionID = id]]
  /\ UNCHANGED << authenticatedUsers, req, call, config, sync, listing, update >>

\* services.GetUser, as GetAuthStatus calls it
ServicesGetUser(g) ==
  /\ services.proc[g].pc = "idle"
  /\ \E id \in StoreIDs :
       services' = [services EXCEPT !.proc[g] =
                      [IdleGoroutine EXCEPT !.pc = "rlock", !.op = "GetUser",
                                            !.sessionID = id]]
  /\ UNCHANGED << authenticatedUsers, req, call, config, sync, listing, update >>

\* userMutex.Lock()
Lock(g) ==
  /\ services.proc[g].pc = "lock"
  /\ CanLock(services.userMutex)
  /\ services' = [services EXCEPT !.userMutex.writer = g,
                                  !.proc[g].pc = "write"]
  /\ UNCHANGED << authenticatedUsers, req, call, config, sync, listing, update >>

\* userMutex.RLock()
RLock(g) ==
  /\ services.proc[g].pc = "rlock"
  /\ CanRLock(services.userMutex)
  /\ services' = [services EXCEPT !.userMutex.readers = @ \cup {g},
                                  !.proc[g].pc = "read"]
  /\ UNCHANGED << authenticatedUsers, req, call, config, sync, listing, update >>

\* authenticatedUsers[sessionID] = user
MapStore(g) ==
  /\ services.proc[g].pc = "write"
  /\ services.proc[g].op = "StoreUser"
  /\ services' = [services EXCEPT
                    !.authenticatedUsers[services.proc[g].sessionID] =
                       [user |-> services.proc[g].user, exists |-> TRUE],
                    !.expired = @ \ {services.proc[g].sessionID},
                    !.proc[g].pc = "unlock"]
  /\ UNCHANGED << authenticatedUsers, req, call, config, sync, listing, update >>

\* delete(authenticatedUsers, sessionID)
MapDelete(g) ==
  /\ services.proc[g].pc = "write"
  /\ services.proc[g].op = "RemoveUser"
  /\ services' = [services EXCEPT
                    !.authenticatedUsers[services.proc[g].sessionID] = NoUser,
                    !.expired = @ \ {services.proc[g].sessionID},
                    !.proc[g].pc = "unlock"]
  /\ UNCHANGED << authenticatedUsers, req, call, config, sync, listing, update >>

\* user, exists := authenticatedUsers[sessionID]
MapLoad(g) ==
  /\ services.proc[g].pc = "read"
  /\ services' = [services EXCEPT
                    !.proc[g].ret =
                       services.authenticatedUsers[services.proc[g].sessionID],
                    !.proc[g].pc = "runlock"]
  /\ UNCHANGED << authenticatedUsers, req, call, config, sync, listing, update >>

\* the deferred userMutex.Unlock(), and the return
Unlock(g) ==
  /\ services.proc[g].pc = "unlock"
  /\ services' = [services EXCEPT
                    !.userMutex.writer = "",
                    !.completed[services.proc[g].sessionID] =
                       services.authenticatedUsers[services.proc[g].sessionID],
                    !.proc[g] = IdleGoroutine]
  /\ UNCHANGED << authenticatedUsers, req, call, config, sync, listing, update >>

\* the deferred userMutex.RUnlock(), and the return
RUnlock(g) ==
  /\ services.proc[g].pc = "runlock"
  /\ services' = [services EXCEPT !.userMutex.readers = @ \ {g},
                                  !.proc[g] = IdleGoroutine]
  /\ UNCHANGED << authenticatedUsers, req, call, config, sync, listing, update >>

\* time passes: the lifetime of a stored session ends
Expire ==
  /\ \E id \in StoreIDs :
       /\ services.authenticatedUsers[id].exists
       /\ id \notin services.expired
       /\ services' = [services EXCEPT !.expired = @ \cup {id}]
  /\ UNCHANGED << authenticatedUsers, req, call, config, sync, listing, update >>

\* CleanupExpiredSessions is called and sleeps
CleanupExpiredSessions(g) ==
  /\ services.proc[g].pc = "idle"
  /\ services' = [services EXCEPT !.proc[g] =
                    [IdleGoroutine EXCEPT !.pc = "sleeping",
                                          !.op = "CleanupExpiredSessions"]]
  /\ UNCHANGED << authenticatedUsers, req, call, config, sync, listing, update >>

\* time.Sleep(1 * time.Hour) is over: CleanupExpiredSessions returns
Wake(g) ==
  /\ services.proc[g].pc = "sleeping"
  /\ services' = [services EXCEPT
                    !.proc[g].pc = "cleaned",
                    !.proc[g].left =
                       {id \in services.expired :
                          services.authenticatedUsers[id].exists}]
  /\ UNCHANGED << authenticatedUsers, req, call, config, sync, listing, update >>

\* the caller of CleanupExpiredSessions goes on
Resume(g) ==
  /\ services.proc[g].pc = "cleaned"
  /\ services' = [services EXCEPT !.proc[g] = IdleGoroutine]
  /\ UNCHANGED << authenticatedUsers, req, call, config, sync, listing, update >>

StoreNext ==
  \/ \E g \in Goroutines :
       \/ StoreUser(g) \/ RemoveUser(g) \/ ServicesGetUser(g)
       \/ Lock(g) \/ RLock(g) \/ MapStore(g) \/ MapDelete(g) \/ MapLoad(g)
       \/ Unlock(g) \/ RUnlock(g)
       \/ CleanupExpiredSessions(g) \/ Wake(g) \/ Resume(g)
  \/ Expire

StoreSpec == Init /\ [][StoreNext]_vars


(***************************************************************************)
(* Go's int of the 64-bit builds, in which page, perPage, start and end of *)
(* getRepositories are computed: a value is its four 16-bit limbs, least   *)
(* significant first, in two's complement, and the arithmetic wraps as the *)
(* machine's does.                                                         *)
(***************************************************************************)
Limb == 65536

Zero64 == << 0, 0, 0, 0 >>

MinusOne64 == << Limb - 1, Limb - 1, Limb - 1, Limb - 1 >>

\* the int of a natural number below 2^31
FromSmall(n) == << n % Limb, n \div Limb, 0, 0 >>

\* the sign bit
Negative(a) == a[4] >= Limb \div 2

\* a * k + c for 0 <= k, c <= 10000, and the carry out of the 64 bits
MulAdd(a, k, c) ==
  LET l1 == a[1] * k + c
      l2 == a[2] * k + l1 \div Limb
      l3 == a[3] * k + l2 \div Limb
      l4 == a[4] * k + l3 \div Limb
  IN  [n |-> << l1 % Limb, l2 % Limb, l3 % Limb, l4 % Limb >>,
       carry |-> l4 \div Limb]

\* a * k, wrapped
Mul64(a, k) == MulAdd(a, k, 0).n

\* a + b, wrapped
Add64(a, b) ==
  LET l1 == a[1] + b[1]
      l2 == a[2] + b[2] + l1 \div Limb
      l3 == a[3] + b[3] + l2 \div Limb
      l4 == a[4] + b[4] + l3 \div Limb
  IN  << l1 % Limb, l2 % Limb, l3 % Limb, l4 % Limb >>

\* a < b, signed
Less64(a, b) ==
  IF Negative(a) # Negative(b) THEN Negative(a)
  ELSE \E i \in 1..4 : /\ a[i] < b[i]
                       /\ \A j \in (i + 1)..4 : a[j] = b[j]

\* a value that is a length or an index of a slice of this model
IsSmall(a) == a[2] = 0 /\ a[3] = 0 /\ a[4] = 0

Small(a) == a[1]

RECURSIVE Decimal64(_)
\* the value of a string of digits, taken four digits at a time, and
\* whether it left the range of int
Decimal64(s) ==
  IF Len(s) <= 4 THEN [n |-> FromSmall(DecimalValue(s)), range |-> FALSE]
  ELSE LET front == Decimal64(SubSeq(s, 1, Len(s) - 4))
           next == MulAdd(front.n, 10000, DecimalValue(SubSeq(s, Len(s) - 3, Len(s))))
       IN  [n |-> next.n,
            range |-> front.range \/ next.carry # 0 \/ Negative(next.n)]

\* strconv.Atoi for the query parameters: an optional sign and then digits
\* only, at least one; ErrRange beyond the int.  positive is n > 0.
Atoi64(s) ==
  LET signed == Len(s) > 0 /\ s[1] \in {"+", "-"}
      body == IF signed THEN Tail(s) ELSE s
      value == Decimal64(body)
  IN  IF Len(body) = 0 \/ \E i \in 1..Len(body) : ~IsDigit(body[i])
        THEN [n |-> Zero64, err |-> TRUE, positive |-> FALSE]
      ELSE IF value.range
        THEN [n |-> Zero64, err |-> TRUE, positive |-> FALSE]
      ELSE [n |-> value.n, err |-> FALSE,
            positive |-> ~(signed /\ s[1] = "-") /\ value.n # Zero64]

(***************************************************************************)
(* getRepositories: the query parameters, fetchAllRepositories request by  *)
(* request, the search filter, the page and the pagination block.          *)
(***************************************************************************)
DefaultPerPage == 25

MaxPerPage == 100

\* the most repositories an account of PageSpec holds
MaxRepos == 5

\* the repository IDs GitHub lists in FetchSpec
RepoIDs == {1, 2}

\* the most pages of one listing type in FetchSpec
MaxFetchPages == 2

RepoTypes == << "owner", "member", "all" >>

ListingTypes == {RepoTypes[i] : i \in DOMAIN RepoTypes}

\* ?page= as sent by the clients; the empty string is an absent parameter
PageQueries ==
  { << >>, << "0" >>, << "-", "1" >>, << "x" >>, << "1" >>, << "2" >>,
    << "3" >>, << "6" >>,
    << "4", "6", "1", "1", "6", "8", "6", "0", "1", "8", "4", "2", "7", "3",
       "8", "7", "9", "0", "5" >>,
    << "9", "2", "2", "3", "3", "7", "2", "0", "3", "6", "8", "5", "4", "7",
       "7", "5", "8", "0", "7" >>,
    << "9", "2", "2", "3", "3", "7", "2", "0", "3", "6", "8", "5", "4", "7",
       "7", "5", "8", "0", "8" >> }

\* ?per_page=
PerPageQueries ==
  { << >>, << "0" >>, << "1" >>, << "2" >>, << "3" >>, << "4" >>,
    << "1", "0", "0" >>, << "1", "0", "1" >> }

\* ?q=
SearchQueries == { << >>, << "a", "p", "p" >>, << "L", "I" >> }

LowerOf ==
  [ch \in {"A", "L", "I"} |-> CASE ch = "A" -> "a" [] ch = "L" -> "l" [] ch = "I" -> "i"]

\* strings.ToLower
ToLower(str) ==
  [i \in DOMAIN str |-> IF str[i] \in DOMAIN LowerOf THEN LowerOf[str[i]] ELSE str[i]]

\* strings.Contains
Contains(str, substr) ==
  \E i \in 0..(Len(str) - Len(substr)) :
    SubSeq(str, i + 1, i + Len(substr)) = substr

Repository(id, name, description) ==
  [ID |-> id, Name |-> name,
   FullName |-> << "a", "l", "i", "c", "e", "/" >> \o name,
   Description |-> description, Private |-> FALSE,
   Owner |-> [Login |-> << "a", "l", "i", "c", "e" >>, ID |-> 1]]

\* the repositories 1..held of an account, named App and lib in turn
Held(held) ==
  [i \in 1..held |->
     Repository(i, IF i % 2 = 1 THEN << "A", "p", "p" >> ELSE << "l", "i", "b" >>,
                << >>)]

\* client.Repositories.List for an account that owns all its repositories:
\* one page under owner and under all, nothing under member
HeldAnswers(repoType, page) ==
  {[err |-> FALSE, NextPage |-> 0,
    repos |-> IF repoType = "member" THEN << >> ELSE Held(listing.held)]}

\* the pages of a listing in FetchSpec: no repository, or one
ListedPages == {<< >>} \cup {<< id >> : id \in RepoIDs}

\* client.Repositories.List in general: an error, or a page of repositories
\* and the number of the next page, 0 after the last.  The description
\* tells under which listing type a repository was returned.
AnyAnswers(repoType, page) ==
  {[err |-> TRUE, NextPage |-> 0, repos |-> << >>]} \cup
  {[err |-> FALSE, NextPage |-> next,
    repos |-> [i \in DOMAIN ids |-> Repository(ids[i], << "r" >>, << repoType >>)]] :
     ids \in ListedPages,
     next \in {0} \cup {n \in {page + 1} : page < MaxFetchPages}}

RECURSIVE UniqueFrom(_, _, _)
\* the loop over allRepos with the map seen, from index i on
UniqueFrom(allRepos, i, seen) ==
  IF i > Len(allRepos) THEN << >>
  ELSE IF allRepos[i].ID \notin seen
    THEN << allRepos[i] >> \o UniqueFrom(allRepos, i + 1, seen \cup {allRepos[i].ID})
  ELSE UniqueFrom(allRepos, i + 1, seen)

\* every occurrence kept
UniqueKeepsAll(allRepos) == allRepos

\* the deduplication at the end of fetchAllRepositories
Unique(allRepos) == UniqueFrom(allRepos, 1, {})

\* the filter of fallbackRepositorySearch
Matches(repo, query) ==
  LET queryLower == ToLower(query)
  IN  \/ Contains(ToLower(repo.Name), queryLower)
      \/ Contains(ToLower(repo.FullName), queryLower)
      \/ Contains(ToLower(repo.Description), queryLower)
      \/ Contains(ToLower(repo.Owner.Login), queryLower)

FilteredRepos(allRepos, query) == SelectSeq(allRepos, LAMBDA repo : Matches(repo, query))

\* start, end, their clamping to the length of the list and the loop that
\* copies list[start..end): the copied repositories, and whether the loop
\* indexed outside the list (a run-time panic)
Paginate(list, page, perPage) ==
  LET n == Len(list)
      start == Mul64(Add64(page, MinusOne64), perPage)
      end == Add64(start, FromSmall(perPage))
      start2 == IF ~Less64(start, FromSmall(n)) THEN FromSmall(n) ELSE start
      end2 == IF Less64(FromSmall(n), end) THEN FromSmall(n) ELSE end
  IN  IF ~Less64(start2, end2)
        THEN [panic |-> FALSE, repos |-> << >>]
      ELSE IF Negative(start2) \/ ~Less64(start2, FromSmall(n))
        THEN [panic |-> TRUE, repos |-> << >>]
      ELSE IF Less64(FromSmall(n), end2)
        THEN [panic |-> TRUE, repos |-> SubSeq(list, Small(start2) + 1, n)]
      ELSE [panic |-> FALSE, repos |-> SubSeq(list, Small(start2) + 1, Small(end2))]

\* (totalCount + perPage - 1) / perPage, rounded down instead
TotalPagesFloor(totalCount, perPage) == totalCount \div perPage

\* (totalCount + perPage - 1) / perPage
TotalPages(totalCount, perPage) == (totalCount + perPage - 1) \div perPage

\* the pagination block of the response
Pagination(page, perPage, totalCount) ==
  LET totalPages == TotalPages(totalCount, perPage)
  IN  [page |-> page, per_page |-> perPage, total_count |-> totalCount,
       has_next |-> Less64(page, FromSmall(totalPages)),
       has_prev |-> Less64(FromSmall(1), page),
       total_pages |-> totalPages]

NoPagination ==
  [page |-> Zero64, per_page |-> 0, total_count |-> 0, has_next |-> FALSE,
   has_prev |-> FALSE, total_pages |-> 0]

\* a listing request before its first statement
NewListing(held) ==
  [pc |-> "new", held |-> held, page |-> Zero64, perPage |-> 0, query |-> << >>,
   token |-> "", typeIndex |-> 0, fetchPage |-> 0, allRepos |-> << >>,
   log |-> << >>, uniqueRepos |-> << >>, list |-> << >>, status |-> 0,
   panic |-> FALSE, repositories |-> << >>, pagination |-> NoPagination]

ListingInitOf(helds) ==
  /\ authenticatedUsers = (SessionIDFor("alice") :> User("alice", "tokA"))
  /\ req = [r \in Requests |-> IdleRequest]
  /\ call = [c \in Callers |-> IdleCall]
  /\ config = IdleConfig
  /\ services = IdleServices
  /\ sync = IdleSync
  /\ update = IdleUpdate
  /\ listing \in {NewListing(held) : held \in helds}

\* getRepositories up to its call of fetchAllRepositories
BeginListingOf(pageQueries, perPageQueries, queries) ==
  /\ listing.pc = "new"
  /\ \E sessionID \in {"", SessionIDFor("alice")},
        pageStr \in pageQueries, perPageStr \in perPageQueries, query \in queries :
       LET user == getAuthenticatedUser(sessionID)
           p == Atoi64(pageStr)
           pp == Atoi64(perPageStr)
           page == IF pageStr # << >> /\ ~p.err /\ p.positive THEN p.n ELSE FromSmall(1)
           perPage == IF /\ perPageStr # << >> /\ ~pp.err /\ pp.positive
                         /\ ~Less64(FromSmall(MaxPerPage), pp.n)
                        THEN Small(pp.n) ELSE DefaultPerPage
       IN  IF ~user.ok
             THEN listing' = [listing EXCEPT !.pc = "done", !.status = 401]
             ELSE listing' = [listing EXCEPT !.pc = "fetching", !.token = user.token,
                                             !.page = page, !.perPage = perPage,
                                             !.query = query, !.typeIndex = 1,
                                             !.fetchPage = 1]
  /\ UNCHANGED << authenticatedUsers, req, call, config, services, sync, update >>

\* one client.Repositories.List of fetchAllRepositories and what the loops
\* do with its answer
ListRepositoriesOf(answers) ==
  /\ listing.pc = "fetching"
  /\ LET repoType == RepoTypes[listing.typeIndex]
         nextType == IF listing.typeIndex = Len(RepoTypes)
                       THEN [listing EXCEPT !.pc = "fetched"]
                       ELSE [listing EXCEPT !.typeIndex = @ + 1, !.fetchPage = 1]
     IN  \E answer \in answers[repoType, listing.fetchPage] :
           LET logged == Append(listing.log,
                                [repoType |-> repoType, page |-> listing.fetchPage,
                                 err |-> answer.err, repos |-> answer.repos])
           IN  IF answer.err
                 THEN listing' = [nextType EXCEPT !.log = logged]
               ELSE IF answer.NextPage = 0
                 THEN listing' = [nextType EXCEPT !.log = logged,
                                                  !.allRepos = @ \o answer.repos]
               ELSE listing' = [listing EXCEPT !.log = logged,
                                               !.allRepos = @ \o answer.repos,
                                               !.fetchPage = answer.NextPage]
  /\ UNCHANGED << authenticatedUsers, req, call, config, services, sync, update >>

\* the deduplication, the filter of a search, the page and the response;
\* gin's Recovery answers 500 for a panic
RespondListing ==
  /\ listing.pc = "fetched"
  /\ LET uniqueRepos == Unique(listing.allRepos)
         list == IF listing.query # << >>
                   THEN FilteredRepos(uniqueRepos, listing.query)
                   ELSE uniqueRepos
         paged == Paginate(list, listing.page, listing.perPage)
     IN  listing' =
           IF paged.panic
             THEN [listing EXCEPT !.pc = "done", !.token = "", !.status = 500,
                                  !.uniqueRepos = uniqueRepos, !.list = list,
                                  !.panic = TRUE]
             ELSE [listing EXCEPT !.pc = "done", !.token = "", !.status = 200,
                                  !.uniqueRepos = uniqueRepos, !.list = list,
                                  !.repositories = paged.repos,
                                  !.pagination = Pagination(listing.page, listing.perPage,
                                                            Len(list))]
  /\ UNCHANGED << authenticatedUsers, req, call, config, services, sync, update >>

PageInit == ListingInitOf(0..MaxRepos)

PageNext ==
  \/ BeginListingOf(PageQueries, PerPageQueries, SearchQueries)
  \/ ListRepositoriesOf([repoType \in ListingTypes, page \in 1..MaxFetchPages |->
                           HeldAnswers(repoType, page)])
  \/ RespondListing

PageSpec == PageInit /\ [][PageNext]_vars

FetchInit == ListingInitOf({0})

FetchNext ==
  \/ BeginListingOf({<< >>}, {<< >>}, {<< >>})
  \/ ListRepositoriesOf([repoType \in ListingTypes, page \in 1..MaxFetchPages |->
                           AnyAnswers(repoType, page)])
  \/ RespondListing

FetchSpec == FetchInit /\ [][FetchNext]_vars

(***************************************************************************)
(* updateEnvironmentVariable: the guard, the body, DeleteEnvVariable and   *)
(* CreateEnvVariable, against the variables GitHub holds for the           *)
(* environment.                                                            *)
(***************************************************************************)
VariableNames == {"X", "Y"}

VariableValues == {"0", "1"}

\* a variable GitHub does not hold
Absent == [exists |-> FALSE, value |-> ""]

Present(value) == [exists |-> TRUE, value |-> value]

\* the environments GitHub can hold
VariableStores ==
  [VariableNames -> {Absent} \cup {Present(v) : v \in VariableValues}]

\* the values of the request bodies
UpdateValues == VariableValues \cup {"2"}

NewUpdate(store) ==
  [pc |-> "new", variables |-> store, before |-> store, name |-> "", value |-> "",
   token |-> "", deleted |-> FALSE, status |-> 0, calls |-> << >>]

UpdateInit ==
  /\ authenticatedUsers = (SessionIDFor("alice") :> User("alice", "tokA"))
  /\ req = [r \in Requests |-> IdleRequest]
  /\ call = [c \in Callers |-> IdleCall]
  /\ config = IdleConfig
  /\ services = IdleServices
  /\ sync = IdleSync
  /\ listing = IdleListing
  /\ update \in {NewUpdate(store) : store \in VariableStores}

\* the guard, the parameters of the path and c.ShouldBindJSON
BeginUpdate ==
  /\ update.pc = "new"
  /\ \E sessionID \in {"", SessionIDFor("alice")}, name \in VariableNames :
       LET user == getAuthenticatedUser(sessionID)
       IN  IF ~user.ok
             THEN update' = [update EXCEPT !.pc = "done", !.status = 401, !.name = name]
             ELSE \/ update' = [update EXCEPT !.pc = "done", !.status = 400,
                                              !.name = name]
                  \/ \E value \in UpdateValues :
                       update' = [update EXCEPT !.pc = "delete", !.name = name,
                                                !.value = value,
                                                !.token = user.token]
  /\ UNCHANGED << authenticatedUsers, req, call, config, services, sync, listing >>

\* client.Actions.DeleteEnvVariable: GitHub removes the variable, or the
\* request fails (no such variable, or no answer) and the handler goes on
DeleteEnvVariable ==
  /\ update.pc = "delete"
  /\ LET called == [update EXCEPT
                      !.pc = "create",
                      !.calls = Append(@, GitHubCall("Actions.DeleteEnvVariable",
                                                     update.token, update.name))]
     IN  \/ /\ update.variables[update.name].exists
            /\ update' = [called EXCEPT !.variables[update.name] = Absent,
                                        !.deleted = TRUE]
         \/ update' = called
  /\ UNCHANGED << authenticatedUsers, req, call, config, services, sync, listing >>

\* client.Actions.CreateEnvVariable and the response: GitHub creates the
\* variable unless it holds one of this name; the request can also fail
CreateEnvVariable ==
  /\ update.pc = "create"
  /\ LET called == [update EXCEPT
                      !.pc = "done", !.token = "",
                      !.calls = Append(@, GitHubCall("Actions.CreateEnvVariable",
                                                     update.token,
                                                     << update.name, update.value >>))]
     IN  \/ /\ ~update.variables[update.name].exists
            /\ update' = [called EXCEPT !.variables[update.name] = Present(update.value),
                                        !.status = 200]
         \/ update' = [called EXCEPT !.status = 500]
  /\ UNCHANGED << authenticatedUsers, req, call, config, services, sync, listing >>

UpdateNext ==
  \/ BeginUpdate
  \/ DeleteEnvVariable
  \/ CreateEnvVariable

UpdateSpec == UpdateInit /\ [][UpdateNext]_vars

(***************************************************************************)
(* Properties of encryptSecret (SealSpec).                                 *)
(***************************************************************************)
Returned(c) == call[c].pc = "returned"

\* the key string GitHub publishes for each of its private keys
PublishedKey == [priv \in RecipientPrivs |-> EncodeToString(ScalarBaseMult(priv))]

IsPublishedKey(k) == \E priv \in RecipientPrivs : PublishedKey[priv] = k

DecodedResult(c) == DecodeString(call[c].out.result).bytes

\* C1: a key string that decodes to a length other than 32 bytes makes
\* encryptSecret return an error without sealing anything.
C1_KeyLengthValidated ==
  \A c \in Callers :
    (Returned(c) /\ ~call[c].out.decodeErr
       /\ Len(call[c].out.decodedKey) # KeySize)
      => (call[c].out.err /\ ~call[c].out.sealed)

\* C2: what encryptSecret returns for a published key opens, under the
\* matching private key, to exactly the plaintext that was sealed.
C2_RoundTrip ==
  \A c \in Callers, priv \in RecipientPrivs :
    (Returned(c) /\ call[c].publicKey = PublishedKey[priv] /\ ~call[c].out.err)
      => Unseal(call[c].out.result, ScalarBaseMult(priv), priv)
           = [msg |-> call[c].secretValue, ok |-> TRUE]

C2_Witness ==
  \E c \in Callers :
    /\ Returned(c) /\ ~call[c].out.err
    /\ IsPublishedKey(call[c].publicKey)
    /\ call[c].secretValue = PlainOfLen(MaxPlainLen)
    /\ MaxPlainLen >= 2

\* C3: a successful result decodes to 32 + len(plaintext) + 16 bytes, and a
\* published key with the empty plaintext succeeds with exactly 48 bytes
\* whenever the random source delivers.
C3_Length ==
  \A c \in Callers :
    Returned(c) =>
      /\ ~call[c].out.err =>
           Len(DecodedResult(c)) = KeySize + Len(call[c].secretValue) + Overhead
      /\ (IsPublishedKey(call[c].publicKey) /\ call[c].secretValue = << >>
            /\ call[c].out.rnd.ok)
           => (~call[c].out.err /\ Len(DecodedResult(c)) = 48)

C3_Witness ==
  \E c \in Callers :
    /\ Returned(c) /\ ~call[c].out.err
    /\ IsPublishedKey(call[c].publicKey)
    /\ call[c].secretValue = << >>
    /\ Len(DecodedResult(c)) = 48

\* C4: the nonce handed to box.Seal is the 24-byte unkeyed digest of the
\* call's ephemeral public key followed by the recipient key that box.Seal
\* encrypts to.
C4_Nonce ==
  \A c \in Callers :
    (Returned(c) /\ call[c].out.sealed) =>
      /\ Len(call[c].out.nonce) = NonceSize
      /\ call[c].out.nonce =
           Blake2bSum(NonceSize, << >>,
                      call[c].out.ephemeralPub \o call[c].out.sealPeer)
      /\ call[c].out.ephemeralPub = ScalarBaseMult(call[c].out.rnd.bytes)
      /\ Len(call[c].out.sealPeer) = KeySize
      /\ call[c].out.sealPeer = call[c].out.recipientKey

C4_Witness ==
  \E c \in Callers :
    /\ Returned(c) /\ call[c].out.sealed
    /\ call[c].publicKey = PublishedKey[KeyFromSeed(5)]
    /\ call[c].out.ephemeralPub # call[c].out.sealPeer

\* C5: the decoded result is the ephemeral public key followed by the box
\* ciphertext of the plaintext; that key is the public half of the private
\* key used to seal and the key hashed first into the nonce.
C5_Layout ==
  \A c \in Callers :
    (Returned(c) /\ ~call[c].out.err) =>
      LET d == DecodedResult(c)
      IN  /\ SubSeq(d, 1, KeySize) = call[c].out.ephemeralPub
          /\ SubSeq(d, KeySize + 1, Len(d)) = call[c].out.encrypted
          /\ call[c].out.encrypted =
               BoxSeal(call[c].secretValue, call[c].out.nonce,
                       call[c].out.sealPeer, call[c].out.sealPriv)
          /\ SubSeq(d, 1, KeySize) = ScalarBaseMult(call[c].out.sealPriv)
          /\ SubSeq(d, 1, KeySize) = SubSeq(call[c].out.written, 1, KeySize)

C5_Witness ==
  \E c \in Callers :
    /\ Returned(c) /\ ~call[c].out.err
    /\ Len(call[c].secretValue) > 0
    /\ Len(DecodedResult(c)) > KeySize + Overhead

\* C6: every call that gets past decoding reads the random source itself
\* and uses exactly the key pair of that read; two calls on the same key
\* and plaintext whose reads gave different key pairs return different
\* results.
C6_Fresh ==
  /\ \A c \in Callers :
       (Returned(c) /\ ~call[c].out.decodeErr) =>
         /\ call[c].out.drew
         /\ call[c].out.rnd.ok =>
              /\ call[c].out.ephemeralPriv = call[c].out.rnd.bytes
              /\ call[c].out.sealPriv = call[c].out.rnd.bytes
              /\ call[c].out.ephemeralPub = ScalarBaseMult(call[c].out.rnd.bytes)
  /\ \A c1, c2 \in Callers :
       (/\ Returned(c1) /\ Returned(c2)
        /\ ~call[c1].out.err /\ ~call[c2].out.err
        /\ call[c1].publicKey = call[c2].publicKey
        /\ call[c1].secretValue = call[c2].secretValue
        /\ call[c1].out.rnd.bytes # call[c2].out.rnd.bytes
        /\ call[c1].out.ephemeralPub # call[c2].out.ephemeralPub)
         => call[c1].out.result # call[c2].out.result

C6_Witness ==
  \E c1, c2 \in Callers :
    /\ c1 # c2 /\ Returned(c1) /\ Returned(c2)
    /\ ~call[c1].out.err /\ ~call[c2].out.err
    /\ call[c1].publicKey = call[c2].publicKey
    /\ call[c1].secretValue = call[c2].secretValue
    /\ call[c1].out.rnd.bytes # call[c2].out.rnd.bytes
    /\ call[c1].out.ephemeralPub # call[c2].out.ephemeralPub

\* C7: a key string that is not standard base64 makes encryptSecret return
\* an error and the empty string without reading the random source.
C7_DecodeFailure ==
  \A c \in Callers :
    (Returned(c) /\ DecodeCorrupt(call[c].publicKey)) =>
      /\ call[c].out.err
      /\ call[c].out.result = << >>
      /\ ~call[c].out.drew
      /\ ~call[c].out.sealed

C7_Witness ==
  /\ \E c \in Callers : Returned(c) /\ call[c].publicKey = CorruptKey
  /\ \E c \in Callers : Returned(c) /\ call[c].publicKey = UnpaddedKey

\* C8: when the read of the random source fails, encryptSecret returns an
\* error and the empty string, having sealed nothing under any key.
C8_RandFailure ==
  \A c \in Callers :
    (Returned(c) /\ call[c].out.drew /\ ~call[c].out.rnd.ok) =>
      /\ call[c].out.err
      /\ call[c].out.result = << >>
      /\ ~call[c].out.sealed
      /\ call[c].out.ephemeralPriv = << >>

C8_Witness ==
  \E c \in Callers :
    /\ Returned(c) /\ call[c].out.drew /\ ~call[c].out.rnd.ok
    /\ IsPublishedKey(call[c].publicKey)

\* C9: whenever a primitive called by encryptSecret reports an error, the
\* call returns an error and no value.
C9_Surfaced ==
  \A c \in Callers :
    (Returned(c)
       /\ (call[c].out.decodeErr \/ call[c].out.genErr \/ call[c].out.hashErr))
      => (call[c].out.err /\ call[c].out.result = << >>)

C9_Witness ==
  \E c1, c2 \in Callers :
    /\ Returned(c1) /\ call[c1].out.decodeErr /\ call[c1].out.err
    /\ Returned(c2) /\ call[c2].out.genErr /\ call[c2].out.err

(***************************************************************************)
(* Properties of the secret handlers (Spec).                               *)
(***************************************************************************)
SubmitAPIs == {"CreateOrUpdateRepoSecret", "CreateOrUpdateEnvSecret"}

Submitted(r) == \E i \in 1..Len(req[r].calls) : req[r].calls[i].api \in SubmitAPIs

\* C10: a secret handler calls encryptSecret at most once per request, and
\* after an error from it the request ends with an error response and
\* without a create-or-update call to GitHub.
C10_NoRetryNoSubmit ==
  \A r \in Requests :
    req[r].handler \in SecretHandlers =>
      /\ req[r].sealCalls <= 1
      /\ req[r].sealErr =>
           /\ req[r].pc = "done"
           /\ req[r].status = 500
           /\ ~Submitted(r)

C10_Witness ==
  \E r1, r2 \in Requests :
    /\ req[r1].handler \in SecretHandlers /\ req[r1].sealErr
    /\ req[r1].pc = "done"
    /\ req[r2].handler \in SecretHandlers /\ Submitted(r2)


\* the position of the first call of the request to one of the given APIs
FirstCall(r, apis) ==
  IF \E i \in 1..Len(req[r].calls) : req[r].calls[i].api \in apis
    THEN CHOOSE i \in 1..Len(req[r].calls) :
           /\ req[r].calls[i].api \in apis
           /\ \A j \in 1..(i - 1) : req[r].calls[j].api \notin apis
    ELSE 0

PublicKeyAPIs == {"GetRepoPublicKey", "GetEnvPublicKey"}

\* C11: a secret handler encrypts only after it has fetched the public key
\* in the same request, encrypts for the key of that response, and submits
\* exactly the string encryptSecret returned together with the key identifier
\* of that same response.
C11_FreshKeyPayload ==
  \A r \in Requests :
    req[r].handler \in SecretHandlers =>
      /\ req[r].sealCalls > 0 =>
           /\ FirstCall(r, PublicKeyAPIs) > 0
           /\ req[r].fetchedKey \in PublicKeyResponses
           /\ req[r].sealedFor = req[r].fetchedKey.key
      /\ \A i \in 1..Len(req[r].calls) :
           req[r].calls[i].api \in SubmitAPIs =>
             /\ req[r].sealCalls = 1
             /\ FirstCall(r, PublicKeyAPIs) \in 1..(i - 1)
             /\ req[r].calls[i].api = SubmitAPI(req[r].handler)
             /\ req[r].calls[i].payload.EncryptedValue = req[r].sealReturned
             /\ req[r].calls[i].payload.KeyID = req[r].fetchedKey.keyID

\* two requests in flight that fetched different keys and submitted
C11_Witness ==
  \E r1, r2 \in Requests :
    /\ Submitted(r1) /\ Submitted(r2)
    /\ req[r1].fetchedKey.keyID = "idA" /\ req[r2].fetchedKey.keyID = "idB"
    /\ IsEnvHandler(req[r1].handler) /\ ~IsEnvHandler(req[r2].handler)

\* a call to GitHub without the encrypted value it carried
WithoutEncryptedValue(c) ==
  IF c.api \in SubmitAPIs
    THEN [c EXCEPT !.payload = [KeyID |-> c.payload.KeyID]]
    ELSE c

\* what a finished request let the outside see, the encrypted value excepted
Observable(r) ==
  [log |-> req[r].log, body |-> req[r].body, status |-> req[r].status,
   calls |-> [i \in 1..Len(req[r].calls) |->
                WithoutEncryptedValue(req[r].calls[i])]]

\* C13: two finished runs of the same secret handler whose surroundings
\* answered alike (session header, request binding, GitHub's responses,
\* whether the random read succeeded), and which therefore differ at most
\* in the plaintext and the ephemeral key, wrote the same log lines and sent
\* the same response body and status; their calls to GitHub differ at most
\* in the encrypted value.
C13_NoLeakage ==
  \A r1, r2 \in Requests :
    ( /\ req[r1].pc = "done" /\ req[r2].pc = "done"
      /\ req[r1].handler \in SecretHandlers
      /\ req[r1].handler = req[r2].handler
      /\ req[r1].env = req[r2].env )
    => Observable(r1) = Observable(r2)

\* two runs on different plaintexts whose encryption failed alike, after
\* each had logged and answered
C13_Witness ==
  \E r1, r2 \in Requests :
    /\ req[r1].pc = "done" /\ req[r2].pc = "done"
    /\ req[r1].handler \in SecretHandlers
    /\ req[r1].handler = req[r2].handler
    /\ req[r1].env = req[r2].env
    /\ req[r1].received # req[r2].received
    /\ req[r1].sealErr /\ req[r2].sealErr
    /\ Len(req[r1].log) = 1 /\ req[r1].status = 500


(***************************************************************************)
(* Properties of concurrent calls of encryptSecret (ReentrantSpec).        *)
(***************************************************************************)
\* C12: however the statements of concurrent calls interleave, what a call
\* returns, and everything it computed on the way, is what the call alone
\* computes from its own key string, plaintext and random read.
C12_Reentrant ==
  \A c \in Callers :
    call[c].pc = "returned" =>
      call[c].out = encryptSecret(call[c].publicKey, call[c].secretValue,
                                  call[c].out.rnd)

\* a call has returned a sealed secret while another call, on another key
\* and with another random read, is between its hash and its seal
C12_Witness ==
  \E c1, c2 \in Callers :
    /\ call[c1].pc = "returned" /\ ~call[c1].out.err
    /\ call[c2].pc = "hashed"
    /\ call[c1].publicKey # call[c2].publicKey
    /\ call[c1].out.nonce # call[c2].out.nonce


C15_Validate ==
  config.pc = "validated" =>
    LET server == config.before.Server
    IN  /\ config.cfg = config.before
        /\ (server.Port <= 0 \/ server.Port > 65535) => config.err = ErrInvalidPort
        /\ (server.Port \in 1..65535 /\ server.Host = "") => config.err = ErrInvalidHost
        /\ (server.Port \in 1..65535 /\ server.Host # "") => config.err = Nil

\* Validate has returned ErrInvalidPort for a Config with a port out of
\* range and an empty host
C15_Witness ==
  /\ config.pc = "validated"
  /\ config.before.Server.Host = ""
  /\ config.before.Server.Port = 65536
  /\ config.err = ErrInvalidPort

\* an optional sign followed by one or more decimal digits
IsDecimalInteger(s) ==
  \/ Len(s) > 0 /\ \A i \in 1..Len(s) : s[i] \in {Digits[d] : d \in 1..10}
  \/ /\ Len(s) > 1 /\ s[1] \in {"+", "-"}
     /\ \A i \in 2..Len(s) : s[i] \in {Digits[d] : d \in 1..10}

\* C16: after LoadFromEnv the host is the value of HOST when HOST is set and
\* non-empty, and the host of before otherwise; the port is the integer that
\* PORT spells when PORT is set to a decimal integer (3000 for "3000", 80
\* for "+80", -1 for "-1"), and the port of before otherwise.
C16_LoadFromEnv ==
  config.pc = "loaded" =>
    LET HOST == config.environ.HOST
        PORT == config.environ.PORT
    IN  /\ config.cfg.Server.Host =
             IF HOST.set /\ HOST.value # "" THEN HOST.value
             ELSE config.before.Server.Host
        /\ IF PORT.set /\ IsDecimalInteger(PORT.value)
             THEN /\ config.cfg.Server.Port = Atoi(PORT.value).n
                  /\ PORT.value = << "3", "0", "0", "0" >> => config.cfg.Server.Port = 3000
                  /\ PORT.value = << "+", "8", "0" >> => config.cfg.Server.Port = 80
                  /\ PORT.value = << "-", "1" >> => config.cfg.Server.Port = 0 - 1
                  /\ PORT.value = << "0" >> => config.cfg.Server.Port = 0
             ELSE config.cfg.Server.Port = config.before.Server.Port

\* LoadFromEnv has run with HOST unset and PORT set to text that is no
\* integer, on a Config that had a host and a port
C16_Witness ==
  /\ config.pc = "loaded"
  /\ ~config.environ.HOST.set
  /\ config.environ.PORT.value = << "8", "0", "a" >>
  /\ config.before.Server = [Host |-> "localhost", Port |-> 8080]
  /\ config.cfg = config.before


(***************************************************************************)
(* Properties of the command (ServeSpec).                                  *)
(***************************************************************************)
BoundHost == config.bound[1]

BoundPort == SubSeq(config.bound, 3, Len(config.bound))

\* C17: the address the server listens on has the host of HOST when HOST is
\* set and the port of PORT when PORT is set to an integer, and without
\* them (and without flags) it is localhost and 8080.
C17_EnvironmentBinds ==
  config.pc = "listening" =>
    LET HOST == config.environ.HOST
        PORT == config.environ.PORT
    IN  /\ (HOST.set /\ HOST.value # "") => BoundHost = HOST.value
        /\ (PORT.set /\ IsDecimalInteger(PORT.value))
             => BoundPort = FormatInt(Atoi(PORT.value).n)
        /\ (~HOST.set /\ ~config.args.host.given) => BoundHost = "localhost"
        /\ (~PORT.set /\ ~config.args.port.given)
             => BoundPort = << "8", "0", "8", "0" >>


(***************************************************************************)
(* Properties of syncVariables (SyncSpec).                                 *)
(***************************************************************************)
Selected(names, name) == Len(names) = 0 \/ contains(names, name)

HasVariable(list, variable) ==
  \E i \in 1..Len(list) :
    list[i].Name = variable.Name /\ list[i].Value = variable.Value

\* C18: when a sync has answered 200 without errors, every selected variable
\* of the source environment is, with its value, among the variables of
\* every target environment of every target repository.
C18_SyncCopiesEnvironment ==
  (sync.pc = "done" /\ sync.status = 200 /\ sync.errors = << >>) =>
    LET request == sync.request
        sourceParts == Split(request.SourceRepo, "/")
        source == sync.github.envVars[<< sourceParts[1], sourceParts[2],
                                         request.SourceEnv >>]
    IN  \A t \in 1..Len(request.TargetRepos), e \in 1..Len(request.TargetEnvs),
           v \in 1..Len(source) :
          Selected(request.VariableNames, source[v].Name) =>
            LET targetParts == Split(request.TargetRepos[t], "/")
            IN  HasVariable(sync.github.envVars[<< targetParts[1], targetParts[2],
                                                   request.TargetEnvs[e] >>],
                            source[v])


(***************************************************************************)
(* Properties of the session store of internal/services (StoreSpec).       *)
(***************************************************************************)
InCriticalSection(g) == services.proc[g].pc \in {"write", "unlock", "read", "runlock"}

Writing(g) == services.proc[g].pc \in {"write", "unlock"}

\* C19: a goroutine between Lock and Unlock is alone between the lock and
\* unlock calls of the store; what GetUser is about to return for an id is
\* what the last write that returned left for that id ((nil, false) when
\* none did or it was a RemoveUser); and the map differs from what the
\* completed writes left at most in the id of the write in progress.
C19_MapUnderRWLock ==
  /\ \A g, h \in Goroutines :
       (Writing(g) /\ h # g) => ~InCriticalSection(h)
  /\ \A g \in Goroutines :
       services.proc[g].pc = "runlock" =>
         services.proc[g].ret = services.completed[services.proc[g].sessionID]
  /\ \A id \in StoreIDs :
       services.authenticatedUsers[id] # services.completed[id] =>
         \E g \in Goroutines :
           /\ services.proc[g].pc = "unlock"
           /\ services.proc[g].sessionID = id

\* GetUser is about to return a stored user while another goroutine waits
\* in Lock to remove the same id, after an earlier StoreUser of another user
\* into the other id
C19_Witness ==
  \E g, h \in Goroutines :
    /\ services.proc[g].pc = "runlock"
    /\ services.proc[g].ret = [user |-> "alice", exists |-> TRUE]
    /\ services.proc[h].pc = "lock"
    /\ services.proc[h].op = "RemoveUser"
    /\ services.proc[h].sessionID = services.proc[g].sessionID
    /\ \E id \in StoreIDs :
         /\ id # services.proc[g].sessionID
         /\ services.completed[id] = [user |-> "bob", exists |-> TRUE]

\* C20: when CleanupExpiredSessions returns, no session whose lifetime is
\* over is left in the store.
C20_CleanupRemovesExpired ==
  \A g \in Goroutines :
    services.proc[g].pc = "cleaned" => services.proc[g].left = {}


(***************************************************************************)
(* Properties of the authentication endpoints (AuthSpec).                  *)
(***************************************************************************)
StatusHandlers == AuthHandlers \cup {"getAuthStatus"}

\* C21: the body of every response of authenticateWithPAT, validateToken
\* and getAuthStatus is made of a message, a session id and a user object
\* with exactly login, name and avatarUrl, none of them a token; and two
\* finished runs of one endpoint to which the client and GitHub gave the
\* same answers apart from the token have the same body and status.
C21_TokenNotExposed ==
  /\ \A r \in Requests :
       (req[r].pc = "done" /\ req[r].handler \in StatusHandlers) =>
         \A i \in 1..Len(req[r].body) :
           IF i = 3 \/ (req[r].handler = "getAuthStatus" /\ req[r].status = 200)
             THEN /\ DOMAIN req[r].body[i] = {"login", "name", "avatarUrl"}
                  /\ \A f \in DOMAIN req[r].body[i] :
                       req[r].body[i][f] \notin AllTokens
             ELSE req[r].body[i] \notin AllTokens
  /\ \A r1, r2 \in Requests :
       ( /\ req[r1].pc = "done" /\ req[r2].pc = "done"
         /\ req[r1].handler \in StatusHandlers
         /\ req[r1].handler = req[r2].handler
         /\ req[r1].env = req[r2].env )
       => (req[r1].body = req[r2].body /\ req[r1].status = req[r2].status)

\* alice has authenticated with one token and asked for her status, then
\* authenticated with her other token and asked again
C21_Witness ==
  \E r1, r2 \in Requests :
    /\ req[r1].pc = "done" /\ req[r2].pc = "done"
    /\ req[r1].handler = "getAuthStatus" /\ req[r2].handler = "getAuthStatus"
    /\ req[r1].status = 200 /\ req[r2].status = 200
    /\ req[r1].sessionHeader = req[r2].sessionHeader
    /\ req[r1].sessionToken = "tokA" /\ req[r2].sessionToken = "tokA2"


\* a request of an authentication endpoint ends in this step
AuthEnds(r) ==
  /\ req[r].handler \in AuthHandlers \/ req[r].pc = "idle"
  /\ req[r].pc # "done"
  /\ req'[r].pc = "done"
  /\ req'[r].handler \in AuthHandlers

\* C23: the session map changes only in the step in which an
\* authentication request receives the user from GitHub, and then by the
\* one entry "session_" + login with that login and the token of that
\* request; a step that ends an authentication request with another status
\* than 200 leaves the map as it was.
C23_SessionsFromAuthentication ==
  [][ /\ authenticatedUsers' # authenticatedUsers =>
           \E r \in Requests :
             /\ AuthEnds(r) /\ req[r].pc = "getUser" /\ req'[r].status = 200
             /\ GitHubLogin(req[r].token) # ""
             /\ LET sid == "session_" \o GitHubLogin(req[r].token)
                IN  /\ DOMAIN authenticatedUsers' = DOMAIN authenticatedUsers \cup {sid}
                    /\ authenticatedUsers'[sid].Login = GitHubLogin(req[r].token)
                    /\ authenticatedUsers'[sid].Token = req[r].token
                    /\ req'[r].authToken = req[r].token
                    /\ \A other \in DOMAIN authenticatedUsers \ {sid} :
                         authenticatedUsers'[other] = authenticatedUsers[other]
      /\ \A r \in Requests :
           (AuthEnds(r) /\ req'[r].status # 200)
             => authenticatedUsers' = authenticatedUsers
    ]_vars

\* bob is logged in, and with him in the map an authentication request
\* with a token GitHub rejects and one whose user data was not decoded
\* have ended
C23_Witness ==
  \E r1, r2 \in Requests :
    /\ DOMAIN authenticatedUsers = {"session_bob"}
    /\ authenticatedUsers["session_bob"].Token = "tokB"
    /\ req[r1].pc = "done" /\ req[r1].handler = "validateToken"
    /\ req[r1].status = 401 /\ req[r1].authToken = "tokX"
    /\ req[r2].pc = "done" /\ req[r2].handler = "authenticateWithPAT"
    /\ req[r2].status = 500 /\ req[r2].authToken = "tokA"

\* the sessions of a login
SessionsOf(login) ==
  {sid \in DOMAIN authenticatedUsers : authenticatedUsers[sid].Login = login}

\* every key of the session map is "session_" + the login of its entry, a
\* login has at most one entry, and every session ID returned for a login
\* stays a key of the map
C25_Entries ==
  /\ \A sid \in DOMAIN authenticatedUsers :
       sid = "session_" \o authenticatedUsers[sid].Login
  /\ \A login \in {"alice", "bob"} : Cardinality(SessionsOf(login)) <= 1
  /\ \A r \in Requests :
       (req[r].handler \in AuthHandlers /\ req[r].pc = "done" /\ req[r].status = 200)
         => /\ req[r].sessionId = "session_" \o GitHubLogin(req[r].authToken)
            /\ req[r].sessionId \in DOMAIN authenticatedUsers
            /\ GitHubLogin(authenticatedUsers[req[r].sessionId].Token)
                 = GitHubLogin(req[r].authToken)

\* the step of a successful authentication leaves the entry of its login
\* holding the token of this request, whatever it held before, and adds no
\* second entry for the login
C25_Replaces ==
      \A r \in Requests :
        (AuthEnds(r) /\ req'[r].status = 200)
          => /\ req'[r].sessionId \in DOMAIN authenticatedUsers'
             /\ authenticatedUsers'[req'[r].sessionId].Token = req[r].token
             /\ SessionsOf(GitHubLogin(req[r].token)) \subseteq {req'[r].sessionId}
             /\ DOMAIN authenticatedUsers' =
                  DOMAIN authenticatedUsers \cup {req'[r].sessionId}

\* C25: the session ID is "session_" + login, so a login has at most one
\* entry in the session map; a later successful authentication of the same
\* login replaces the stored token, and the session ID returned earlier
\* stays a key of the map and resolves to the token validated last.
C25_OneSessionPerLogin == []C25_Entries /\ [][C25_Replaces]_vars

\* alice authenticated with tokA and then with tokA2: the session ID
\* returned to the first request resolves to tokA2
C25_Witness ==
  \E r1, r2 \in Requests :
    /\ r1 # r2
    /\ req[r1].pc = "done" /\ req[r1].status = 200
    /\ req[r1].authToken = "tokA" /\ req[r1].sessionId = "session_alice"
    /\ req[r2].pc = "done" /\ req[r2].status = 200
    /\ req[r2].authToken = "tokA2" /\ req[r2].sessionId = "session_alice"
    /\ authenticatedUsers["session_alice"].Token = "tokA2"
    /\ Cardinality(SessionsOf("alice")) = 1

(***************************************************************************)
(* Properties of the accesses to the session map (RaceSpec).               *)
(***************************************************************************)

\* C24: while a handler is inside its write of authenticatedUsers, no other
\* handler is inside a read or a write of the map.
C24_NoOverlappingMapAccess ==
  \A w \in Requests :
    (req[w].pc = "storing") => (Storing(w) = {} /\ Reading(w) = {})

(***************************************************************************)
(* Properties of the guard of the handlers (GuardSpec).                    *)
(***************************************************************************)
\* C22: a guarded handler that was given an empty X-Session-ID, or one the
\* map did not hold when the handler looked, has answered 401 and made no
\* request to GitHub; and every request a guarded handler made to GitHub
\* carried the token the map held for the presented session.
C22_AuthenticationGuard ==
  \A r \in Requests :
    (req[r].handler \in GuardedHandlers) =>
      /\ (req[r].sessionHeader = "" \/ req[r].sessionToken = "")
           => (req[r].pc = "done" /\ req[r].status = 401 /\ req[r].calls = << >>)
      /\ \A i \in 1..Len(req[r].calls) :
           /\ req[r].calls[i].token = req[r].sessionToken
           /\ req[r].sessionToken # ""

\* bob's session was presented and GitHub was asked with bob's token while
\* alice is logged in too, and another handler was refused for a session
\* nobody holds
C22_Witness ==
  \E r1, r2 \in Requests :
    /\ req[r1].handler = "compareEnvironments"
    /\ req[r1].sessionHeader = "session_bob"
    /\ Len(req[r1].calls) = MaxGuardedCalls
    /\ req[r1].calls[1].token = "tokB"
    /\ "session_alice" \in DOMAIN authenticatedUsers
    /\ req[r2].handler = "syncVariables"
    /\ req[r2].sessionHeader = "session_mallory"
    /\ req[r2].status = 401

(***************************************************************************)
(* Properties of the repository pages (PageSpec).                          *)
(***************************************************************************)

\* the mathematical page: list[(page-1)*perPage .. min(page*perPage, n)), a
\* page number of 2^16 or more lying beyond every list of this model
ExpectedPage(list, page, perPage) ==
  LET n == Len(list)
      first == (Small(page) - 1) * perPage
      last == IF Small(page) * perPage < n THEN Small(page) * perPage ELSE n
  IN  IF ~IsSmall(page) \/ first >= n THEN << >>
      ELSE SubSeq(list, first + 1, last)

\* C26: for page >= 1 and per_page in 1..100 the response carries exactly
\* the repositories at the indices (page-1)*per_page up to, but excluding,
\* min(page*per_page, n) of the list (none when (page-1)*per_page >= n),
\* and the handler reads no index outside the list.
C26_PageContents ==
  (listing.pc = "done" /\ listing.status # 401) =>
    /\ ~Negative(listing.page) /\ listing.page # Zero64
    /\ listing.perPage \in 1..MaxPerPage
    /\ ~listing.panic
    /\ listing.status = 200
    /\ listing.repositories =
         ExpectedPage(listing.list, listing.page, listing.perPage)

RECURSIVE Received(_)
\* the repositories of the answers without error, in the order of the
\* requests
Received(log) ==
  IF log = << >> THEN << >>
  ELSE Received(SubSeq(log, 1, Len(log) - 1)) \o
       (IF log[Len(log)].err THEN << >> ELSE log[Len(log)].repos)

\* the index of the first repository of the list with this ID
FirstIndex(list, id) ==
  CHOOSE i \in DOMAIN list :
    list[i].ID = id /\ \A j \in 1..(i - 1) : list[j].ID # id

\* C28: the list fetchAllRepositories returns holds every repository ID
\* that any request of any listing type returned, each once, as its first
\* occurrence and in the order of the first occurrences; a request that
\* fails is the last one of its listing type, the other types are still
\* requested and the repositories received before stay in the list.
C28_FetchAllDeduplicates ==
  (listing.pc = "done" /\ listing.status # 401) =>
    LET log == listing.log
        all == Received(log)
        u == listing.uniqueRepos
    IN  /\ {u[k].ID : k \in DOMAIN u} = {all[i].ID : i \in DOMAIN all}
        /\ \A k1, k2 \in DOMAIN u : k1 # k2 => u[k1].ID # u[k2].ID
        /\ \A k \in DOMAIN u : u[k] = all[FirstIndex(all, u[k].ID)]
        /\ \A k1, k2 \in DOMAIN u :
             k1 < k2 => FirstIndex(all, u[k1].ID) < FirstIndex(all, u[k2].ID)
        /\ \A t \in 1..Len(RepoTypes) :
             \E i \in DOMAIN log : log[i].repoType = RepoTypes[t]
        /\ \A i, j \in DOMAIN log :
             (log[i].err /\ i < j) => log[j].repoType # log[i].repoType

\* the owner listing gave repository 1 and then failed; the member listing
\* gave repository 1 again: the list has it once, as the owner listing
\* returned it, and repository 2 of the all listing after it
C28_Witness ==
  /\ listing.pc = "done" /\ listing.status = 200
  /\ Len(listing.log) = 4
  /\ listing.log[1].repoType = "owner" /\ ~listing.log[1].err
  /\ listing.log[2].repoType = "owner" /\ listing.log[2].err
  /\ listing.log[3].repoType = "member" /\ ~listing.log[3].err
  /\ Len(listing.log[3].repos) = 1 /\ listing.log[3].repos[1].ID = 1
  /\ Len(listing.uniqueRepos) = 2
  /\ listing.uniqueRepos[1].ID = 1
  /\ listing.uniqueRepos[1].Description = << "owner" >>
  /\ listing.uniqueRepos[2].ID = 2

(***************************************************************************)
(* Properties of updateEnvironmentVariable (UpdateSpec).                   *)
(***************************************************************************)

\* C29: after a 200 response the variable has the value of the request;
\* after any error response a variable that existed before the request
\* still exists with the value it had.
C29_UpdateAllOrNothing ==
  (update.pc = "done") =>
    /\ (update.status = 200) =>
         update.variables[update.name] = Present(update.value)
    /\ (update.status # 200 /\ update.before[update.name].exists) =>
         update.variables[update.name] = update.before[update.name]

====
